---------------------------- MODULE Spec2Model ----------------------------
(***************************************************************************)
(* Failure-log dashboard (src/src/App.jsx).                                *)
(*                                                                         *)
(*   - field reconciliation and record normalisation                       *)
(*     (promoteCatalystFields, normaliseFlowType, normaliseRecord);        *)
(*   - the source aggregator                                               *)
(*     (fetchPageFromModule, fetchPage, fetchAllRecords) with its cache    *)
(*     (saveToCache, getFromCache) across page loads;                      *)
(*   - response unwrapping (parseCatalystResponse);                        *)
(*   - the hierarchy builder (buildHierarchy);                             *)
(*   - the filters and the tree memo of the FailureLogs component;         *)
(*   - the exception analyzer (analyzeException, extractStackFrames,       *)
(*     extractClasses, buildExceptionContext);                             *)
(*   - the load cycles of the FailureLogs component (loadData).            *)
(*                                                                         *)
(* Each part has its own specification over the shared variables:          *)
(* SpecNorm, SpecFetch, SpecCache, SpecParse, SpecHier, SpecView,          *)
(* SpecDiag, SpecLoad.                                                     *)
(*                                                                         *)
(* JavaScript values are modelled as tagged records, strings as sequences  *)
(* of one-character strings so that trim / toLowerCase / String() are      *)
(* computed, not assumed.                                                  *)
(***************************************************************************)
EXTENDS Integers, Sequences, FiniteSets, TLC

(***************************************************************************)
(* JavaScript values                                                       *)
(***************************************************************************)
Undef   == [t |-> "undefined", s |-> <<>>, n |-> 0]
Null    == [t |-> "null",      s |-> <<>>, n |-> 0]
Str(cs) == [t |-> "string",    s |-> cs,   n |-> 0]
Num(k)  == [t |-> "number",    s |-> <<>>, n |-> k]
Bool(b) == [t |-> "boolean",   s |-> <<>>, n |-> IF b THEN 1 ELSE 0]

EmptyStr == Str(<<>>)

\* x == null  (loose equality: null or undefined)
IsNullish(v) == v.t \in {"undefined", "null"}

\* a ?? b
Coalesce(a, b) == IF IsNullish(a) THEN b ELSE a

\* !v
Falsy(v) ==
    \/ IsNullish(v)
    \/ v = EmptyStr
    \/ v = Num(0)
    \/ v = Bool(FALSE)

Upper == <<"A","B","C","D","E","F","G","H","I","J","K","L","M",
           "N","O","P","Q","R","S","T","U","V","W","X","Y","Z">>
Lower == <<"a","b","c","d","e","f","g","h","i","j","k","l","m",
           "n","o","p","q","r","s","t","u","v","w","x","y","z">>

ToLowerChar(c) ==
    IF \E i \in DOMAIN Upper : Upper[i] = c
    THEN Lower[CHOOSE i \in DOMAIN Upper : Upper[i] = c]
    ELSE c

\* String.prototype.toLowerCase
ToLowerCase(cs) == [i \in DOMAIN cs |-> ToLowerChar(cs[i])]

IsSpace(c) == c \in {" ", "\t", "\n"}

RECURSIVE TrimStart(_)
TrimStart(cs) ==
    IF cs = <<>> THEN <<>>
    ELSE IF IsSpace(Head(cs)) THEN TrimStart(Tail(cs)) ELSE cs

RECURSIVE TrimEnd(_)
TrimEnd(cs) ==
    IF cs = <<>> THEN <<>>
    ELSE IF IsSpace(cs[Len(cs)]) THEN TrimEnd(SubSeq(cs, 1, Len(cs) - 1)) ELSE cs

\* String.prototype.trim
Trim(cs) == TrimEnd(TrimStart(cs))

Digits == <<"0","1","2","3","4","5","6","7","8","9">>

RECURSIVE NatToChars(_)
NatToChars(k) ==
    IF k < 10 THEN <<Digits[k + 1]>>
    ELSE NatToChars(k \div 10) \o <<Digits[(k % 10) + 1]>>

\* String(v)
JsString(v) ==
    CASE v.t = "string"    -> v.s
      [] v.t = "number"    -> NatToChars(v.n)
      [] v.t = "boolean"   -> IF v.n = 1 THEN <<"t","r","u","e">> ELSE <<"f","a","l","s","e">>
      [] v.t = "null"      -> <<"n","u","l","l">>
      [] v.t = "undefined" -> <<"u","n","d","e","f","i","n","e","d">>

\* obj[k] / obj.k : a key the object lacks reads as undefined
Get(obj, k) == IF k \in DOMAIN obj THEN obj[k] ELSE Undef

(***************************************************************************)
(* Literals of the data layer                                              *)
(***************************************************************************)
PublishStr == <<"P","u","b","l","i","s","h">>
SignupStr  == <<"S","i","g","n","u","p">>
InviteStr  == <<"I","n","v","i","t","e">>
UpgradeStr == <<"U","p","g","r","a","d","e">>
UnknownLc  == <<"u","n","k","n","o","w","n">>
UnknownUc  == <<"U","n","k","n","o","w","n">>

\* the four modules fetchPage asks, in the order of the Promise.all array
Sources == <<"publishfailure", "signupfailure", "Invitefailure", "upgradefailure">>
SourceSet == {Sources[i] : i \in DOMAIN Sources}

(***************************************************************************)
(* normaliseFlowType                                                       *)
(***************************************************************************)
FlowFieldOf(rec) ==
    Coalesce(Get(rec, "Flow_Type"),
    Coalesce(Get(rec, "flow_type"),
    Coalesce(Get(rec, "FlowType"),
    Coalesce(Get(rec, "flowtype"),
    Coalesce(Get(rec, "Flow Type"), Null)))))

\* variant: the embedded flow field is looked at before the source identity
normaliseFlowType_FieldFirst(rec, sourceModule) ==
    LET raw == FlowFieldOf(rec)
        s   == ToLowerCase(Trim(JsString(raw)))
    IN  IF ~Falsy(raw) /\ s = ToLowerCase(PublishStr) THEN Str(PublishStr)
        ELSE IF ~Falsy(raw) /\ s = ToLowerCase(SignupStr)  THEN Str(SignupStr)
        ELSE IF ~Falsy(raw) /\ s = ToLowerCase(InviteStr)  THEN Str(InviteStr)
        ELSE IF ~Falsy(raw) /\ s = ToLowerCase(UpgradeStr) THEN Str(UpgradeStr)
        ELSE IF sourceModule = "signupfailure" THEN Str(SignupStr)
        ELSE IF sourceModule = "Invitefailure" THEN Str(InviteStr)
        ELSE IF sourceModule = "publishfailure" THEN Str(PublishStr)
        ELSE IF sourceModule = "upgradefailure" THEN Str(UpgradeStr)
        ELSE IF Falsy(raw) THEN Str(PublishStr)
        ELSE Str(Trim(JsString(raw)))

\* variant: an unrecognised flow field is passed through without trim()
normaliseFlowType_NoTrim(rec, sourceModule) ==
    IF sourceModule = "signupfailure" THEN Str(SignupStr)
    ELSE IF sourceModule = "Invitefailure" THEN Str(InviteStr)
    ELSE IF sourceModule = "publishfailure" THEN Str(PublishStr)
    ELSE IF sourceModule = "upgradefailure" THEN Str(UpgradeStr)
    ELSE LET raw == FlowFieldOf(rec)
             s   == ToLowerCase(Trim(JsString(raw)))
         IN  IF Falsy(raw) THEN Str(PublishStr)
             ELSE IF s = ToLowerCase(PublishStr) THEN Str(PublishStr)
             ELSE IF s = ToLowerCase(SignupStr)  THEN Str(SignupStr)
             ELSE IF s = ToLowerCase(InviteStr)  THEN Str(InviteStr)
             ELSE IF s = ToLowerCase(UpgradeStr) THEN Str(UpgradeStr)
             ELSE Str(JsString(raw))

normaliseFlowType(rec, sourceModule) ==
    IF sourceModule = "signupfailure" THEN Str(SignupStr)
    ELSE IF sourceModule = "Invitefailure" THEN Str(InviteStr)
    ELSE IF sourceModule = "publishfailure" THEN Str(PublishStr)
    ELSE IF sourceModule = "upgradefailure" THEN Str(UpgradeStr)
    ELSE LET raw == FlowFieldOf(rec)
             s   == ToLowerCase(Trim(JsString(raw)))
         IN  IF Falsy(raw) THEN Str(PublishStr)
             ELSE IF s = ToLowerCase(PublishStr) THEN Str(PublishStr)
             ELSE IF s = ToLowerCase(SignupStr)  THEN Str(SignupStr)
             ELSE IF s = ToLowerCase(InviteStr)  THEN Str(InviteStr)
             ELSE IF s = ToLowerCase(UpgradeStr) THEN Str(UpgradeStr)
             ELSE Str(Trim(JsString(raw)))

(***************************************************************************)
(* promoteCatalystFields                                                   *)
(***************************************************************************)
\* canonical field -> its alternate spellings, in the order pick() tries them
FieldKeys ==
    [ id           |-> <<"id", "ID", "record_id", "recordId">>,
      Name         |-> <<"Name", "name">>,
      ZOID         |-> <<"ZOID", "zoid", "Zoid">>,
      ZUID         |-> <<"ZUID", "zuid", "Zuid">>,
      Created_Time |-> <<"Created_Time", "created_time", "CreatedTime", "RequestTime", "requesttime">>,
      Request_Time |-> <<"Request_Time", "RequestTime", "request_time", "requesttime", "Created_Time">>,
      ServerName   |-> <<"ServerName", "server_name", "servername", "Server_Name">>,
      threadid     |-> <<"threadid", "thread_id", "ThreadId", "threadId">>,
      requestid    |-> <<"requestid", "request_id", "RequestId", "requestId">>,
      Statuscode   |-> <<"Statuscode", "status_code", "statuscode", "StatusCode", "status">>,
      BuildID      |-> <<"BuildID", "build_id", "buildid", "BuildId">>,
      Changeset    |-> <<"Changeset", "changeset", "change_set">>,
      Exception_trace |-> <<"Exception_trace", "exception_trace", "ExceptionTrace", "stacktrace", "stack_trace">>,
      Error_message   |-> <<"Error_message", "error_message", "ErrorMessage", "errormessage">>,
      Reason_for_the_exception |->
          <<"Reason_for_the_exception", "reason_for_the_exception", "ReasonForException", "reason", "failure_reason">>,
      Flow_Type    |-> <<"Flow_Type", "flow_type", "FlowType", "flowtype", "Flow Type">> ]

Fields == DOMAIN FieldKeys

\* rec[k] !== undefined && rec[k] !== null && rec[k] !== ""
Present(v) == v # Undef /\ v # Null /\ v # EmptyStr

\* variant: pick() tests truthiness, so 0 and false are skipped too
RECURSIVE pick_Truthy(_, _)
pick_Truthy(rec, keys) ==
    IF keys = <<>> THEN Null
    ELSE IF ~Falsy(Get(rec, Head(keys))) THEN Get(rec, Head(keys))
    ELSE pick_Truthy(rec, Tail(keys))

RECURSIVE pick(_, _)
pick(rec, keys) ==
    IF keys = <<>> THEN Null
    ELSE IF Present(Get(rec, Head(keys))) THEN Get(rec, Head(keys))
    ELSE pick(rec, Tail(keys))

promoteCatalystFields(rec) == [f \in Fields |-> pick(rec, FieldKeys[f])]

(***************************************************************************)
(* normaliseRecord                                                         *)
(***************************************************************************)
\* variant: the tenant id is stringified without the null test
ZoidOf_NoDefault(rec) == Str(JsString(Get(rec, "ZOID")))

ZoidOf(rec) ==
    IF ~IsNullish(Get(rec, "ZOID")) THEN Str(JsString(Get(rec, "ZOID"))) ELSE Str(UnknownLc)

normaliseRecord(rec, sourceModule) ==
    [ id            |-> Coalesce(Get(rec, "id"), Coalesce(Get(rec, "ID"), Null)),
      Name          |-> Coalesce(Get(rec, "Name"), Coalesce(Get(rec, "name"), Str(UnknownUc))),
      ZOID          |-> ZoidOf(rec),
      ZUID          |-> Coalesce(Get(rec, "ZUID"), Coalesce(Get(rec, "zuid"), Null)),
      threadid      |-> Coalesce(Get(rec, "threadid"), Null),
      Statuscode    |-> Coalesce(Get(rec, "Statuscode"), Null),
      ServerName    |-> Coalesce(Get(rec, "ServerName"), Null),
      requestid     |-> Coalesce(Get(rec, "requestid"), Null),
      Changeset     |-> Coalesce(Get(rec, "Changeset"), Null),
      BuildID       |-> Coalesce(Get(rec, "BuildID"), Null),
      Flow_Type     |-> normaliseFlowType(rec, sourceModule),
      Created_Time  |-> Coalesce(Get(rec, "Created_Time"), Null),
      Request_Time  |-> Coalesce(Get(rec, "Request_Time"), Coalesce(Get(rec, "Created_Time"), Null)),
      Source_Module |-> sourceModule,
      Exception_trace |-> Coalesce(Get(rec, "Exception_trace"), Null),
      Error_message   |-> Coalesce(Get(rec, "Error_message"), Null),
      Reason_for_the_exception |-> Coalesce(Get(rec, "Reason_for_the_exception"), Null) ]

\* data.map(rec => normaliseRecord(promoteCatalystFields(rec), moduleName))
normaliseRaw(rec, moduleName) == normaliseRecord(promoteCatalystFields(rec), moduleName)

(***************************************************************************)
(* State                                                                   *)
(***************************************************************************)
VARIABLES
    \* one application of line 166 to one raw record
    raw,            \* the raw record handed to promoteCatalystFields
    sourceModule,   \* the moduleName handed to normaliseRecord
    promoted,       \* promoteCatalystFields(raw)
    normalised,     \* normaliseRecord(promoted, sourceModule)
    npc             \* "raw" before the call, "done" after it

normVars == <<raw, sourceModule, promoted, normalised, npc>>

VARIABLES
    \* the environment of one fetchAllRecords() call
    upstream,       \* what the record source answers, per moduleValue of the URL
    fault,          \* the one source call of the run that goes wrong, if any
    now,            \* Date.now()
    visit,          \* how many times the page has been loaded
    \* localStorage
    cache,          \* cache key -> stored entry
    \* fetchAllRecords / fetchPage / fetchPageFromModule
    fpc,            \* "idle", "loop" (at the while test), "await" (Promise.all),
                    \* "done" (returned), "rejected" (threw)
    page,           \* let page
    more,           \* let more
    all,            \* let all
    call,           \* per source: "none", "pending" (axios.get in flight), "done"
    result,         \* per source: what its fetchPageFromModule resolved to
    requests        \* the axios.get calls issued so far, in order

envVars == <<upstream, fault, now, visit>>

fetchVars == <<cache, fpc, page, more, all, call, result, requests>>

VARIABLES
    \* one application of parseCatalystResponse
    payload,        \* the argument raw
    unwrapped,      \* the value returned
    ppc,            \* "raw" before the call, "done" after it
    \* one application of buildHierarchy
    flat,           \* the argument records
    tree,           \* the value returned
    hpc             \* "flat" before the call, "done" after it

parseVars == <<payload, unwrapped, ppc>>

hierVars == <<flat, tree, hpc>>

VARIABLES
    \* the FailureLogs component
    rawRecords,     \* useState([]): the loaded records
    filters         \* searchQuery, dateFrom, dateTo, errCode, flowFilters, quickView

viewVars == <<rawRecords, filters>>

VARIABLES
    \* the exception analyzer, applied to one record
    contextRec,     \* the record
    matches,        \* analyzeException(contextRec).matches
    frames,         \* extractStackFrames(contextRec.Exception_trace)
    context,        \* buildExceptionContext(contextRec)
    dpc             \* "rec" before the calls, then "analyzed", "framed",
                    \* "context" and "again" as they are made

diagVars == <<contextRec, matches, frames, context, dpc>>

VARIABLES
    \* FailureLogs: the load cycles
    loading,        \* const [loading, setLoading]
    cyc             \* per loadData call: how far it is, and what its
                    \* fetchAllRecords holds

loadVars == <<loading, cyc>>

pureVars == <<parseVars, hierVars, viewVars, diagVars, loadVars>>

vars == <<normVars, envVars, fetchVars, pureVars>>

(***************************************************************************)
(* Inputs of the normaliser                                                *)
(***************************************************************************)
\* a raw record carries at most MaxKeys keys
MaxKeys == 2

Range(f) == {f[i] : i \in DOMAIN f}

TimeFields == {"Created_Time", "Request_Time"}

\* the keys a raw record may carry when it exercises canonical field f: the
\* spellings of f (the two timestamp fields share spellings and go together)
GroupKeys(f) ==
    IF f \in TimeFields
    THEN Range(FieldKeys["Created_Time"]) \cup Range(FieldKeys["Request_Time"])
    ELSE Range(FieldKeys[f])

GenSamples ==
    { Null, EmptyStr, Str(<<" ">>), Str(<<"a", "b">>), Num(0), Num(42) }

FlowSamples ==
    { Null, EmptyStr, Str(<<" ", " ">>),
      Str(<<" ", "P", "u", "b", "l", "i", "s", "h">>),
      Str(<<"S", "I", "G", "N", "U", "P", " ">>),
      Str(<<"i", "n", "v", "i", "t", "e">>),
      Str(<<"\t", "U", "p", "G", "r", "a", "d", "e", "\n">>),
      Str(<<" ", "R", "e", "t", "r", "y", " ">>),
      Num(0), Bool(FALSE), Bool(TRUE) }

Samples(f) == IF f = "Flow_Type" THEN FlowSamples ELSE GenSamples

RawRecords(f) ==
    UNION { [K -> Samples(f)] :
              K \in {K \in SUBSET GroupKeys(f) : Cardinality(K) <= MaxKeys} }

\* the four fixed identifiers and two that are not (one differs by case only)
ModuleNames == SourceSet \cup {"invitefailure", "auditfailure"}

NoRecord == [f \in {} |-> Undef]

\* the aggregator is not running
FetchIdle ==
    /\ upstream = <<>>
    /\ fault = <<>>
    /\ now = 0
    /\ visit = 0
    /\ cache = <<>>
    /\ fpc = "off"
    /\ page = 0
    /\ more = FALSE
    /\ all = <<>>
    /\ call = <<>>
    /\ result = <<>>
    /\ requests = <<>>

\* parseCatalystResponse is not running
ParseIdle ==
    /\ payload = <<>>
    /\ unwrapped = <<>>
    /\ ppc = "off"

\* buildHierarchy is not running
HierIdle ==
    /\ flat = <<>>
    /\ tree = <<>>
    /\ hpc = "off"

\* the component is not mounted
ViewIdle ==
    /\ rawRecords = <<>>
    /\ filters = <<>>

\* the exception analyzer is not running
DiagIdle ==
    /\ contextRec = NoRecord
    /\ matches = <<>>
    /\ frames = <<>>
    /\ context = <<>>
    /\ dpc = "off"

\* no load cycle is modelled
LoadIdle ==
    /\ loading = FALSE
    /\ cyc = <<>>

PureIdle == ParseIdle /\ HierIdle /\ ViewIdle /\ DiagIdle /\ LoadIdle

InitNorm ==
    /\ \E f \in Fields : raw \in RawRecords(f)
    /\ sourceModule \in ModuleNames
    /\ promoted = NoRecord
    /\ normalised = NoRecord
    /\ npc = "raw"
    /\ FetchIdle
    /\ PureIdle

\* line 166, for one element of data
NormaliseStep ==
    /\ npc = "raw"
    /\ promoted' = promoteCatalystFields(raw)
    /\ normalised' = normaliseRecord(promoted', sourceModule)
    /\ npc' = "done"
    /\ UNCHANGED <<raw, sourceModule, envVars, fetchVars, pureVars>>

NextNorm == NormaliseStep

SpecNorm == InitNorm /\ [][NextNorm]_vars

(***************************************************************************)
(* Properties of the normaliser (checked under SpecNorm)                   *)
(***************************************************************************)
NormDone == npc = "done"

\* the flow name each fixed source identifier stands for
FlowOfSource ==
    [ publishfailure |-> PublishStr, signupfailure |-> SignupStr,
      Invitefailure  |-> InviteStr,  upgradefailure |-> UpgradeStr ]

FlowKeys == FieldKeys["Flow_Type"]

RawHasFlowField == \E i \in DOMAIN FlowKeys : Present(Get(raw, FlowKeys[i]))

\* the value of the first flow spelling, in declaration order, that is present
RawFlowField ==
    LET i == CHOOSE i \in DOMAIN FlowKeys :
                 /\ Present(Get(raw, FlowKeys[i]))
                 /\ \A j \in 1..(i - 1) : ~Present(Get(raw, FlowKeys[j]))
    IN  Get(raw, FlowKeys[i])

FlowNames == {PublishStr, SignupStr, InviteStr, UpgradeStr}

\* cs equals the flow name ignoring case and surrounding whitespace
SameFlowName(cs, name) == ToLowerCase(Trim(cs)) = ToLowerCase(name)

\* C1: when sourceModule is one of the four fixed identifiers the normalised
\* flow type is the flow name of that source, whatever flow field the raw
\* record embeds.
C1_SourceIdentityWins ==
    (NormDone /\ sourceModule \in SourceSet)
        => normalised.Flow_Type = Str(FlowOfSource[sourceModule])

\* a record of a fixed source that embeds the name of another flow
C1_Witness ==
    /\ NormDone
    /\ sourceModule = "Invitefailure"
    /\ RawHasFlowField
    /\ SameFlowName(JsString(RawFlowField), PublishStr)
    /\ normalised.Flow_Type = Str(InviteStr)

\* C2: every normalised record has a populated flow type: Flow_Type is a
\* non-empty string for every raw record and every source module.
C2_FlowTypePopulated ==
    NormDone => (normalised.Flow_Type.t = "string" /\ normalised.Flow_Type.s # <<>>)

\* C3 as stated: outside the four fixed identifiers, a flow field naming one
\* of the four flows (ignoring case and surrounding whitespace) gives the
\* canonical name, any other present value is passed through trimmed, and a
\* flow field that is missing, null or empty under every spelling gives
\* "Publish".
C3_FlowFieldRule ==
    (NormDone /\ sourceModule \notin SourceSet) =>
        IF ~RawHasFlowField THEN normalised.Flow_Type = Str(PublishStr)
        ELSE LET cs == JsString(RawFlowField)
             IN  IF \E name \in FlowNames : SameFlowName(cs, name)
                 THEN \E name \in FlowNames :
                        SameFlowName(cs, name) /\ normalised.Flow_Type = Str(name)
                 ELSE normalised.Flow_Type = Str(Trim(cs))

\* C3 amended: as C3, except that a flow field holding the number 0 or the
\* boolean false counts as unspecified and gives "Publish".
C3_FlowFieldRuleAmended ==
    (NormDone /\ sourceModule \notin SourceSet) =>
        IF ~RawHasFlowField \/ RawFlowField \in {Num(0), Bool(FALSE)}
        THEN normalised.Flow_Type = Str(PublishStr)
        ELSE LET cs == JsString(RawFlowField)
             IN  IF \E name \in FlowNames : SameFlowName(cs, name)
                 THEN \E name \in FlowNames :
                        SameFlowName(cs, name) /\ normalised.Flow_Type = Str(name)
                 ELSE normalised.Flow_Type = Str(Trim(cs))

\* an unknown source whose flow field is passed through trimmed
C3_Witness ==
    /\ NormDone
    /\ sourceModule \notin SourceSet
    /\ RawHasFlowField
    /\ RawFlowField.t = "string"
    /\ Trim(RawFlowField.s) # RawFlowField.s
    /\ Trim(RawFlowField.s) # <<>>
    /\ ~\E name \in FlowNames : SameFlowName(RawFlowField.s, name)
    /\ normalised.Flow_Type = Str(Trim(RawFlowField.s))

ZoidKeys == FieldKeys["ZOID"]

RawHasZoid == \E i \in DOMAIN ZoidKeys : Present(Get(raw, ZoidKeys[i]))

C5_TimesBothOrNeither ==
    NormDone =>
        /\ normalised.Created_Time # Null => normalised.Request_Time # Null
        /\ normalised.Created_Time = Null => normalised.Request_Time = Null

\* the value of the first key of the list that is present in raw, else null
FirstPresent(keys) ==
    IF \E i \in DOMAIN keys : Present(Get(raw, keys[i]))
    THEN LET i == CHOOSE i \in DOMAIN keys :
                      /\ Present(Get(raw, keys[i]))
                      /\ \A j \in 1..(i - 1) : ~Present(Get(raw, keys[j]))
         IN  Get(raw, keys[i])
    ELSE Null

C6_Promoted ==
    NormDone => \A f \in Fields : promoted[f] = FirstPresent(FieldKeys[f])

C6_RawUntouched == [][raw' = raw]_vars

\* C6: every canonical field of the promoted record holds the value of the
\* first of its spellings whose raw value is neither undefined, null nor the
\* empty string, or null when there is none; the raw record is not modified.
C6_PromoteFirstPresent == []C6_Promoted /\ C6_RawUntouched

\* two spellings of one field present, the later one in the list skipped,
\* and an earlier spelling skipped because it is empty
C6_Witness ==
    /\ NormDone
    /\ \E f \in Fields : \E i, j \in DOMAIN FieldKeys[f] :
          /\ i < j
          /\ Present(Get(raw, FieldKeys[f][i]))
          /\ Present(Get(raw, FieldKeys[f][j]))
          /\ Get(raw, FieldKeys[f][i]) # Get(raw, FieldKeys[f][j])
          /\ promoted[f] = Get(raw, FieldKeys[f][i])

(***************************************************************************)
(* Timestamps and the page sort                                            *)
(***************************************************************************)
\* the date strings the model's records carry, with the value new Date()
\* gives them (counted in days since the epoch; only differences are used)
StampJan == <<"2","0","2","4","-","0","1">>
StampFeb == <<"2","0","2","4","-","0","2">>
StampMar == <<"2","0","2","4","-","0","3">>

DateTable == { <<StampJan, 19723>>, <<StampFeb, 19754>>, <<StampMar, 19783>> }

\* variant: new Date(null) is an Invalid Date
DateOf_NullInvalid(v) ==
    CASE v.t = "number"  -> [nan |-> FALSE, ms |-> v.n]
      [] v.t = "boolean" -> [nan |-> FALSE, ms |-> v.n]
      [] v.t = "string"  ->
            IF \E e \in DateTable : e[1] = v.s
            THEN [nan |-> FALSE, ms |-> (CHOOSE e \in DateTable : e[1] = v.s)[2]]
            ELSE [nan |-> TRUE, ms |-> 0]
      [] OTHER           -> [nan |-> TRUE, ms |-> 0]

\* new Date(v) as a number, or not a number (an Invalid Date)
DateOf(v) ==
    CASE v.t = "null"    -> [nan |-> FALSE, ms |-> 0]
      [] v.t = "number"  -> [nan |-> FALSE, ms |-> v.n]
      [] v.t = "boolean" -> [nan |-> FALSE, ms |-> v.n]
      [] v.t = "string"  ->
            IF \E e \in DateTable : e[1] = v.s
            THEN [nan |-> FALSE, ms |-> (CHOOSE e \in DateTable : e[1] = v.s)[2]]
            ELSE [nan |-> TRUE, ms |-> 0]
      [] OTHER           -> [nan |-> TRUE, ms |-> 0]

\* rec.Request_Time ?? rec.Created_Time
EffectiveTime(rec) == Coalesce(rec.Request_Time, rec.Created_Time)

\* (a, b) => new Date(b.Request_Time ?? b.Created_Time)
\*         - new Date(a.Request_Time ?? a.Created_Time)
\* a NaN difference is read by Array.prototype.sort as 0
ByTimeDesc(a, b) ==
    LET da == DateOf(EffectiveTime(a))
        db == DateOf(EffectiveTime(b))
    IN  IF da.nan \/ db.nan THEN 0 ELSE db.ms - da.ms

\* variant: x is put in front of the elements it ties with
RECURSIVE InsertSorted_Unstable(_, _)
InsertSorted_Unstable(x, sorted) ==
    IF sorted = <<>> THEN <<x>>
    ELSE IF ByTimeDesc(sorted[Len(sorted)], x) >= 0
         THEN InsertSorted_Unstable(x, SubSeq(sorted, 1, Len(sorted) - 1)) \o <<sorted[Len(sorted)]>>
         ELSE sorted \o <<x>>

\* x put into a list that is sorted, behind every element it does not precede
RECURSIVE InsertSorted(_, _)
InsertSorted(x, sorted) ==
    IF sorted = <<>> THEN <<x>>
    ELSE IF ByTimeDesc(sorted[Len(sorted)], x) > 0
         THEN InsertSorted(x, SubSeq(sorted, 1, Len(sorted) - 1)) \o <<sorted[Len(sorted)]>>
         ELSE sorted \o <<x>>

\* Array.prototype.sort with the comparator above (a stable sort)
RECURSIVE SortByTimeDesc(_)
SortByTimeDesc(recs) ==
    IF recs = <<>> THEN <<>>
    ELSE InsertSorted(recs[Len(recs)], SortByTimeDesc(SubSeq(recs, 1, Len(recs) - 1)))

(***************************************************************************)
(* The cache (localStorage)                                                *)
(***************************************************************************)
CACHE_EXPIRY_MS == 300000

\* the while loop's page cap
MaxPages == 10

\* pages the model keeps cache slots for (the loop never gets this far)
PageLimit == 12

\* what a fetchPageFromModule call resolves to
Result(records, hasMore) == [records |-> records, hasMore |-> hasMore]

NoResult == Result(<<>>, FALSE)

\* `${CACHE_KEY_PREFIX}${moduleName}_page_${page}`
getCacheKey(moduleName, pg) == <<moduleName, pg>>

CacheKeys == {getCacheKey(s, p) : s \in SourceSet, p \in 1..PageLimit}

\* a stored item: JSON of { timestamp, data }, or nothing under the key
NoEntry == [kind |-> "none", timestamp |-> 0, data |-> NoResult]
Entry(ts, data) == [kind |-> "entry", timestamp |-> ts, data |-> data]

\* a stored item that is not JSON: JSON.parse throws a SyntaxError
Unparseable == [kind |-> "unparseable", timestamp |-> 0, data |-> NoResult]

\* a stored item that parses, whose data is an object without a records array
Shapeless(ts, hasMore) == Entry(ts, [hasMore |-> hasMore])

EmptyCache == [k \in CacheKeys |-> NoEntry]

\* JSON.parse(JSON.stringify(v)) of a record: a key whose value is undefined
\* is left out, every other value of a record comes back as it went in
JsonKeeps(rec, k) == k = "Source_Module" \/ rec[k].t # "undefined"

JsonRecord(rec) == [k \in {g \in DOMAIN rec : JsonKeeps(rec, g)} |-> rec[k]]

JsonResult(res) ==
    Result([i \in DOMAIN res.records |-> JsonRecord(res.records[i])], res.hasMore)

saveToCache(c, t, moduleName, pg, data) ==
    [c EXCEPT ![getCacheKey(moduleName, pg)] = Entry(t, JsonResult(data))]

\* variant: an entry exactly CACHE_EXPIRY_MS old already counts as expired
getFromCache_ExpiresEarly(c, t, moduleName, pg) ==
    LET e == c[getCacheKey(moduleName, pg)]
    IN  IF e.kind = "none"
        THEN [hit |-> FALSE, value |-> NoResult, store |-> c]
        ELSE IF e.kind = "unparseable"
        THEN [hit |-> FALSE, value |-> NoResult, store |-> c]
        ELSE IF t - e.timestamp >= CACHE_EXPIRY_MS
        THEN [hit |-> FALSE, value |-> NoResult,
              store |-> [c EXCEPT ![getCacheKey(moduleName, pg)] = NoEntry]]
        ELSE [hit |-> TRUE, value |-> e.data, store |-> c]

\* variant: an expired entry is reported as a miss but left in the store
getFromCache_KeepsExpired(c, t, moduleName, pg) ==
    LET e == c[getCacheKey(moduleName, pg)]
    IN  IF e.kind = "none"
        THEN [hit |-> FALSE, value |-> NoResult, store |-> c]
        ELSE IF e.kind = "unparseable"
        THEN [hit |-> FALSE, value |-> NoResult, store |-> c]
        ELSE IF t - e.timestamp > CACHE_EXPIRY_MS
        THEN [hit |-> FALSE, value |-> NoResult, store |-> c]
        ELSE [hit |-> TRUE, value |-> e.data, store |-> c]

\* the value returned (hit says whether it is non-null) and the store left behind
getFromCache(c, t, moduleName, pg) ==
    LET e == c[getCacheKey(moduleName, pg)]
    IN  IF e.kind = "none"
        THEN [hit |-> FALSE, value |-> NoResult, store |-> c]
        ELSE IF e.kind = "unparseable"
        THEN [hit |-> FALSE, value |-> NoResult, store |-> c]
        ELSE IF t - e.timestamp > CACHE_EXPIRY_MS
        THEN [hit |-> FALSE, value |-> NoResult,
              store |-> [c EXCEPT ![getCacheKey(moduleName, pg)] = NoEntry]]
        ELSE [hit |-> TRUE, value |-> e.data, store |-> c]

(***************************************************************************)
(* Response payloads and parseCatalystResponse                             *)
(***************************************************************************)
\* JSON values of a payload.  A string is identified by what JSON.parse makes
\* of its text: a value, or a SyntaxError.
PUndef      == [t |-> "undefined"]
PNull       == [t |-> "null"]
PBool(b)    == [t |-> "boolean", b |-> b]
PNum(k)     == [t |-> "number", n |-> k]
PArr(items) == [t |-> "array", items |-> items]
PObj(f)     == [t |-> "object", f |-> f]
SyntaxError == [t |-> "error"]
Encoded(v)  == [t |-> "string", text |-> v]
Garbled     == Encoded(SyntaxError)

\* v?.k : undefined on null and undefined, the property otherwise
Prop(v, k) == IF v.t = "object" /\ k \in DOMAIN v.f THEN v.f[k] ELSE PUndef

\* a ?? b
PCoalesce(a, b) == IF a.t \in {"undefined", "null"} THEN b ELSE a

\* if (typeof l === "string") l = JSON.parse(l)
Unstring(v) == IF v.t = "string" THEN v.text ELSE v

\* l3?.info?.more_records === true || l3?.info?.more_records === "true"
MoreRecords(l3) ==
    LET flag == Prop(Prop(l3, "info"), "more_records")
    IN  flag = PBool(TRUE) \/ flag = Encoded(PBool(TRUE))

\* the catch branch
Caught == [data |-> <<>>, hasMore |-> FALSE]

\* variant: a bare array is taken to announce more records
BareArray_More(l3) == [data |-> l3.items, hasMore |-> TRUE]

\* line 153
BareArray(l3) == [data |-> l3.items, hasMore |-> FALSE]

\* lines 150-155; a SyntaxError thrown by JSON.parse at one level skips the
\* levels after it and is caught at line 155
parseCatalystResponse(rawJson) ==
    LET l1 == Unstring(rawJson)
        l2 == IF l1.t = "error" THEN l1
              ELSE Unstring(PCoalesce(Prop(l1, "output"), l1))
        l3 == IF l2.t = "error" THEN l2
              ELSE Unstring(PCoalesce(Prop(Prop(l2, "details"), "output"),
                                      PCoalesce(Prop(l2, "data"), l2)))
    IN  IF l3.t = "error" THEN Caught
        ELSE IF l3.t = "array" THEN BareArray(l3)
        ELSE [ data    |-> IF Prop(l3, "data").t = "array" THEN Prop(l3, "data").items ELSE <<>>,
               hasMore |-> MoreRecords(l3) ]

(***************************************************************************)
(* The record source                                                       *)
(***************************************************************************)
\* `${CATALYST_API_BASE}?moduleValue=${encodeURIComponent(moduleName)}`
UrlOf(moduleName, pg) == [base |-> "CATALYST_API_BASE", moduleValue |-> moduleName]

\* one axios.get: the call it was issued for and the URL it carries
Request(moduleName, pg) ==
    [module |-> moduleName, page |-> pg, url |-> UrlOf(moduleName, pg)]

RawJan  == [id |-> Num(1), ZOID |-> Num(42), Request_Time |-> Str(StampJan)]
RawFeb  == [ID |-> Num(2), zoid |-> Str(<<"a", "b">>), created_time |-> Str(StampFeb)]
RawMar  == [record_id |-> Num(3), RequestTime |-> Str(StampMar),
            Flow_Type |-> Str(<<" ", "P", "u", "b", "l", "i", "s", "h">>)]
RawBare == [Name |-> Str(<<"a", "b">>)]
RawFebB == [id |-> Num(4), Request_Time |-> Str(StampFeb)]

\* the records each module holds upstream
Dataset ==
    [ publishfailure |-> <<RawFeb, RawMar>>, signupfailure |-> <<RawJan>>,
      Invitefailure  |-> <<RawBare>>,        upgradefailure |-> <<RawFeb, RawFebB>> ]

\* the records source s holds upstream, as the normaliser renders them
ExpectedRecords(s) == [i \in DOMAIN Dataset[s] |-> normaliseRaw(Dataset[s][i], s)]

\* the source answers a request by what the request carries; whether a module
\* reports more records is the environment's choice
Upstreams ==
    { [s \in SourceSet |-> [kind |-> "ok", data |-> Dataset[s], more |-> m[s]]] :
        m \in [SourceSet -> BOOLEAN] }

\* a source call going wrong: axios.get rejects ("reject"), the body does not
\* parse ("garbled"), or the data array holds a null element ("nullrec")
FaultKinds == {"reject", "garbled", "nullrec"}
FaultPages == {1, 2}
NoFault == [src |-> "none", page |-> 0, kind |-> "none"]
Faults ==
    {NoFault} \cup
    { [src |-> s, page |-> p, kind |-> k] : s \in SourceSet, p \in FaultPages, k \in FaultKinds }

FaultAt(moduleName, pg) == fault.src = moduleName /\ fault.page = pg

\* the envelope the function endpoint answers with: the page object sits, as
\* JSON text, under details.output of the object under output
Envelope(recs, moreRecords) ==
    PObj([output |->
        PObj([details |->
            PObj([output |->
                Encoded(PObj([ data |-> PArr(recs),
                               info |-> PObj([more_records |-> PBool(moreRecords)]) ]))])])])

\* response.data for the request
ResponseBody(req) ==
    LET up == upstream[req.url.moduleValue]
    IN  IF FaultAt(req.module, req.page) /\ fault.kind = "garbled"
        THEN Garbled
        ELSE IF FaultAt(req.module, req.page) /\ fault.kind = "nullrec"
        THEN Envelope(<<Null>> \o up.data, up.more)
        ELSE Envelope(up.data, up.more)

\* rec[k] on null throws a TypeError
Throws(data) == \E i \in DOMAIN data : "t" \in DOMAIN data[i]

\* variant: the catch branch leaves hasMore set
FailResult_StillMore == Result(<<>>, TRUE)

\* the catch branch of fetchPageFromModule
FailResult == Result(<<>>, FALSE)

(***************************************************************************)
(* fetchAllRecords / fetchPage / fetchPageFromModule                       *)
(***************************************************************************)
\* the normaliser is not running
NormIdle ==
    /\ raw = NoRecord
    /\ sourceModule = "none"
    /\ promoted = NoRecord
    /\ normalised = NoRecord
    /\ npc = "off"

\* a cache as an earlier visit left it: one page of one module, written
\* exactly CACHE_EXPIRY_MS ago (still served) or one millisecond earlier
StartTime == 2 * CACHE_EXPIRY_MS

CachedResult == Result(<<normaliseRaw(RawFeb, "signupfailure")>>, TRUE)

LeftoverCaches ==
    { saveToCache(EmptyCache, StartTime - CACHE_EXPIRY_MS - age, "signupfailure", 1, CachedResult) :
        age \in {0, 1} }

InitFetch ==
    /\ NormIdle
    /\ PureIdle
    /\ upstream \in Upstreams
    /\ \/ fault \in Faults /\ cache = EmptyCache
       \/ fault = NoFault /\ cache \in LeftoverCaches
    /\ now = StartTime
    /\ visit = 1
    /\ fpc = "idle"
    /\ page = 0
    /\ more = FALSE
    /\ all = <<>>
    /\ call = [s \in SourceSet |-> "none"]
    /\ result = [s \in SourceSet |-> NoResult]
    /\ requests = <<>>

\* line 189
CallFetchAll ==
    /\ fpc = "idle"
    /\ all' = <<>>
    /\ page' = 1
    /\ more' = TRUE
    /\ fpc' = "loop"
    /\ UNCHANGED <<normVars, pureVars, envVars, cache, call, result, requests>>

\* variant: the loop test is off by one
WithinCap_OffByOne(p) == p <= MaxPages + 1

\* page <= 10
WithinCap(p) == p <= MaxPages

\* the store after the getFromCache calls of sources i.. of the Promise.all array
RECURSIVE CacheAfterLookups(_, _, _)
CacheAfterLookups(c, pg, i) ==
    IF i > Len(Sources) THEN c
    ELSE CacheAfterLookups(getFromCache(c, now, Sources[i], pg).store, pg, i + 1)

\* the axios.get calls of sources i.., in the order of the Promise.all array
RECURSIVE RequestsIssued(_, _, _)
RequestsIssued(c, pg, i) ==
    IF i > Len(Sources) THEN <<>>
    ELSE (IF getFromCache(c, now, Sources[i], pg).hit THEN <<>> ELSE <<Request(Sources[i], pg)>>)
         \o RequestsIssued(c, pg, i + 1)

\* lines 190-191 and 177-182, 159-163: the loop test passes, fetchPage(page)
\* calls fetchPageFromModule for each source; each runs to its first await
StartPage ==
    /\ fpc = "loop"
    /\ more /\ WithinCap(page)
    /\ page <= PageLimit
    /\ call' = [s \in SourceSet |->
                  IF getFromCache(cache, now, s, page).hit THEN "done" ELSE "pending"]
    /\ result' = [s \in SourceSet |-> getFromCache(cache, now, s, page).value]
    /\ cache' = CacheAfterLookups(cache, page, 1)
    /\ requests' = requests \o RequestsIssued(cache, page, 1)
    /\ fpc' = "await"
    /\ UNCHANGED <<normVars, pureVars, envVars, page, more, all>>

\* variant: the catch block stores the empty result it returns
CacheOnFailure_StoresEmpty(c, t, moduleName, pg) == saveToCache(c, t, moduleName, pg, FailResult)

\* localStorage after the catch block of lines 170-173, which logs and
\* returns and calls neither setItem nor removeItem
CacheOnFailure(c, t, moduleName, pg) == c

\* the axios.get of source s is in flight
Awaiting(s) == fpc = "await" /\ call[s] = "pending"

\* lines 163-173: the axios.get of one source settles and the rest of its
\* fetchPageFromModule runs
Respond(s) ==
    /\ Awaiting(s)
    /\ LET req    == Request(s, page)
           parsed == parseCatalystResponse(ResponseBody(req))
           res    == Result([i \in DOMAIN parsed.data |-> normaliseRaw(parsed.data[i], s)],
                            parsed.hasMore)
       IN  IF (FaultAt(s, page) /\ fault.kind = "reject") \/ Throws(parsed.data)
           THEN /\ result' = [result EXCEPT ![s] = FailResult]
                /\ cache' = CacheOnFailure(cache, now, s, page)
           ELSE /\ result' = [result EXCEPT ![s] = res]
                /\ cache' = saveToCache(cache, now, s, page, res)
    /\ call' = [call EXCEPT ![s] = "done"]
    /\ UNCHANGED <<normVars, pureVars, envVars, fpc, page, more, all, requests>>

\* Promise.all: every fetchPageFromModule promise has resolved
PageSettled(c) == \A s \in SourceSet : c[s] = "done"

\* await Promise.all([...]) can resume
FanIn == fpc = "await" /\ PageSettled(call)

\* variant: the four lists are joined last source first
RECURSIVE Combined_Reversed(_, _)
Combined_Reversed(res, i) ==
    IF i > Len(Sources) THEN <<>>
    ELSE Combined_Reversed(res, i + 1) \o res[Sources[i]].records

\* [...pub.records, ...sig.records, ...inv.records, ...upg.records]
RECURSIVE Combined(_, _)
Combined(res, i) ==
    IF i > Len(Sources) THEN <<>>
    ELSE res[Sources[i]].records \o Combined(res, i + 1)

\* variant: the flags are joined with && instead of ||
AnyMore_Every(res) == \A i \in DOMAIN Sources : res[Sources[i]].hasMore

\* pub.hasMore || sig.hasMore || inv.hasMore || upg.hasMore
AnyMore(res) == \E i \in DOMAIN Sources : res[Sources[i]].hasMore

\* ...x.records: spreading undefined throws a TypeError
Spreadable(res) == "records" \in DOMAIN res

\* lines 183-185 and 192: fetchPage returns and the loop body finishes, or
\* line 183 throws and the promise of fetchAllRecords is rejected
FinishPage ==
    /\ FanIn
    /\ IF \A s \in SourceSet : Spreadable(result[s])
       THEN /\ all' = all \o SortByTimeDesc(Combined(result, 1))
            /\ more' = AnyMore(result)
            /\ page' = page + 1
            /\ call' = [s \in SourceSet |-> "none"]
            /\ fpc' = "loop"
       ELSE /\ fpc' = "rejected"
            /\ UNCHANGED <<all, more, page, call>>
    /\ UNCHANGED <<normVars, pureVars, envVars, cache, result, requests>>

\* lines 190 and 194: the loop test fails, all is returned
ReturnAll ==
    /\ fpc = "loop"
    /\ ~(more /\ WithinCap(page))
    /\ fpc' = "done"
    /\ UNCHANGED <<normVars, pureVars, envVars, cache, page, more, all, call, result, requests>>

NextFetch ==
    \/ CallFetchAll
    \/ StartPage
    \/ \E s \in SourceSet : Respond(s)
    \/ FinishPage
    \/ ReturnAll

SpecFetch == InitFetch /\ [][NextFetch]_vars

(***************************************************************************)
(* The aggregator over a cache that earlier page loads (or anything else   *)
(* writing to localStorage) left behind                                    *)
(***************************************************************************)
\* page loads of one run
MaxVisits == 2

\* time between two page loads: an entry written by the first is exactly
\* CACHE_EXPIRY_MS old at the second, or one millisecond older
Gaps == {CACHE_EXPIRY_MS, CACHE_EXPIRY_MS + 1}

\* what may sit under a cache key when the page loads
StoredItems ==
    { Entry(StartTime - CACHE_EXPIRY_MS, CachedResult),
      Entry(StartTime - CACHE_EXPIRY_MS - 1, CachedResult),
      Unparseable,
      Shapeless(StartTime, FALSE),
      Shapeless(StartTime, TRUE),
      Shapeless(StartTime - CACHE_EXPIRY_MS - 1, TRUE) }

StoredKeys == {getCacheKey("signupfailure", 1), getCacheKey("publishfailure", 2)}

StoredCaches ==
    {EmptyCache} \cup { [EmptyCache EXCEPT ![k] = e] : k \in StoredKeys, e \in StoredItems }

\* only the first source may report more records
CacheUpstreams ==
    { u \in Upstreams : \A s \in SourceSet \ {"publishfailure"} : ~u[s].more }

CacheFaults == {NoFault, [src |-> "signupfailure", page |-> 1, kind |-> "reject"]}

InitCache ==
    /\ NormIdle
    /\ PureIdle
    /\ upstream \in CacheUpstreams
    /\ fault \in CacheFaults
    /\ cache \in StoredCaches
    /\ now = StartTime
    /\ visit = 1
    /\ fpc = "idle"
    /\ page = 0
    /\ more = FALSE
    /\ all = <<>>
    /\ call = [s \in SourceSet |-> "none"]
    /\ result = [s \in SourceSet |-> NoResult]
    /\ requests = <<>>

\* fetchAllRecords has settled
Settled == fpc \in {"done", "rejected"}

\* line 971: the page is loaded again later; localStorage is all that is kept
Revisit ==
    /\ Settled
    /\ visit < MaxVisits
    /\ visit' = visit + 1
    /\ \E gap \in Gaps : now' = now + gap
    /\ fpc' = "idle"
    /\ page' = 0
    /\ more' = FALSE
    /\ all' = <<>>
    /\ call' = [s \in SourceSet |-> "none"]
    /\ result' = [s \in SourceSet |-> NoResult]
    /\ requests' = <<>>
    /\ UNCHANGED <<normVars, pureVars, upstream, fault, cache>>

NextCache ==
    \/ CallFetchAll
    \/ StartPage
    \/ \E s \in SourceSet : Respond(s)
    \/ FinishPage
    \/ ReturnAll
    \/ Revisit

SpecCache == InitCache /\ [][NextCache]_vars

(***************************************************************************)
(* Properties of the aggregator over a left-behind cache (SpecCache)       *)
(***************************************************************************)
\* C11: whatever the cache holds (nothing, a fresh or an expired entry, text
\* that does not parse, or an entry whose data has no records array) and
\* whatever the sources answer, fetchAllRecords completes with an array: its
\* promise is never rejected.
C11_NeverRejects == fpc # "rejected"

\* the item under the key of (s, page), as the calls of this page find it
Stored(s) == cache[getCacheKey(s, page)]

\* the item is an entry captured no more than CACHE_EXPIRY_MS ago
FreshEntry(s) == Stored(s).kind = "entry" /\ now - Stored(s).timestamp <= CACHE_EXPIRY_MS

\* the item is an entry captured more than CACHE_EXPIRY_MS ago
ExpiredEntry(s) == Stored(s).kind = "entry" /\ now - Stored(s).timestamp > CACHE_EXPIRY_MS

\* the step in which fetchPage(page) calls fetchPageFromModule four times
PageCalled == fpc = "loop" /\ fpc' = "await"

\* the axios.get calls that step issues
NewRequests == SubSeq(requests', Len(requests) + 1, Len(requests'))

Requested(s) == \E i \in DOMAIN NewRequests : NewRequests[i] = Request(s, page)

\* a fresh entry is what the call resolves to, without a request
C12_Hit ==
    [][PageCalled =>
        \A s \in SourceSet : FreshEntry(s) =>
            /\ result'[s] = Stored(s).data
            /\ call'[s] = "done"
            /\ ~Requested(s)
            /\ cache'[getCacheKey(s, page)] = Stored(s)]_vars

\* what a successful fetch stores is the value it resolves to, stamped now
C12_Stored ==
    [][\A s \in SourceSet :
          (Awaiting(s) /\ call'[s] = "done" /\ cache' # cache)
              => cache'[getCacheKey(s, page)] = Entry(now, result'[s])]_vars

\* C12: when the cache holds an entry for (source, page) captured no more
\* than 5 minutes ago, fetchPageFromModule resolves to exactly the stored
\* {records, hasMore}, the value the earlier fetch wrote, and issues no
\* request for that (source, page).
C12_FreshHitServed == C12_Hit /\ C12_Stored

\* the second page load, exactly CACHE_EXPIRY_MS after the first: all four
\* calls of page 1 are served from what the first load stored
C12_Witness ==
    /\ visit = 2
    /\ fpc = "await"
    /\ page = 1
    /\ now = StartTime + CACHE_EXPIRY_MS
    /\ requests = <<>>
    /\ \A s \in SourceSet :
          /\ call[s] = "done"
          /\ Spreadable(result[s])
          /\ Stored(s) = Entry(StartTime, result[s])
          /\ result[s].records = ExpectedRecords(s)

\* C13: an entry older than the 5-minute TTL is never returned by a cache
\* read: the read reports a miss and removes the entry, and the aggregator
\* issues the network call for that (source, page).
C13_ExpiredMissed ==
    [][PageCalled =>
        \A s \in SourceSet : ExpiredEntry(s) =>
            /\ ~getFromCache(cache, now, s, page).hit
            /\ getFromCache(cache, now, s, page).store[getCacheKey(s, page)] = NoEntry
            /\ cache'[getCacheKey(s, page)] = NoEntry
            /\ call'[s] = "pending"
            /\ Requested(s)]_vars

\* the second page load, one millisecond past the TTL of what the first load
\* stored: the entries are gone and all four sources are asked again
C13_Witness ==
    /\ visit = 2
    /\ fpc = "await"
    /\ page = 1
    /\ now = StartTime + CACHE_EXPIRY_MS + 1
    /\ Len(requests) = Len(Sources)
    /\ \A s \in SourceSet : call[s] = "pending" /\ Stored(s) = NoEntry

(***************************************************************************)
(* parseCatalystResponse on its own                                        *)
(***************************************************************************)
\* the arrays a payload may carry
RecordArrays == {<<>>, <<RawJan>>}

\* info.more_records: absent, a boolean, or the text of one
Flags == {PUndef, PBool(TRUE), PBool(FALSE), Encoded(PBool(TRUE)), Encoded(PBool(FALSE))}

NoKeys == [k \in {} |-> PUndef]

\* { data, info: { more_records } }
WithInfo(d, flag) ==
    PObj([ data |-> d,
           info |-> PObj(IF flag.t = "undefined" THEN NoKeys ELSE [more_records |-> flag]) ])

\* a value, or the JSON text of it
MaybeEncoded(S) == S \cup {Encoded(v) : v \in S}

Leaves ==
    {PNull, PNum(7), Garbled}
        \cup {PArr(a) : a \in RecordArrays}
        \cup {PObj([data |-> PArr(a)]) : a \in RecordArrays}
        \cup {WithInfo(d, f) : d \in MaybeEncoded({PArr(a) : a \in RecordArrays}), f \in Flags}

Level3 == MaybeEncoded(Leaves)

Level2 ==
    MaybeEncoded(Level3
        \cup {PObj([details |-> PObj([output |-> v])]) : v \in Level3}
        \cup {PObj([data |-> v]) : v \in Level3})

\* the payloads handed to parseCatalystResponse
Payloads == MaybeEncoded(Level2 \cup {PObj([output |-> v]) : v \in Level2})

InitParse ==
    /\ NormIdle
    /\ FetchIdle
    /\ HierIdle
    /\ ViewIdle
    /\ DiagIdle
    /\ LoadIdle
    /\ payload \in Payloads
    /\ unwrapped = <<>>
    /\ ppc = "raw"

\* line 165
ParseStep ==
    /\ ppc = "raw"
    /\ unwrapped' = parseCatalystResponse(payload)
    /\ ppc' = "done"
    /\ UNCHANGED <<normVars, envVars, fetchVars, hierVars, viewVars, diagVars, loadVars, payload>>

NextParse == ParseStep

SpecParse == InitParse /\ [][NextParse]_vars

(***************************************************************************)
(* Properties of parseCatalystResponse (checked under SpecParse)           *)
(***************************************************************************)
ParseDone == ppc = "done"

\* the value found at each unwrapping level: the envelope, what is under
\* output, what is under details.output or data; text counts as what it
\* encodes
AtLevel1(p) == p
AtLevel2(p) == PCoalesce(Prop(Unstring(AtLevel1(p)), "output"), Unstring(AtLevel1(p)))
AtLevel3(p) ==
    PCoalesce(Prop(Prop(Unstring(AtLevel2(p)), "details"), "output"),
              PCoalesce(Prop(Unstring(AtLevel2(p)), "data"), Unstring(AtLevel2(p))))

Levels(p) == {AtLevel1(p), AtLevel2(p), AtLevel3(p)}

\* { data: "[]", info: { more_records: "false" } }
ScenarioPayload == WithInfo(Encoded(PArr(<<>>)), Encoded(PBool(FALSE)))

EmptyPage == [data |-> <<>>, hasMore |-> FALSE]

\* C14: parseCatalystResponse returns, for every payload, a value
\* {data: array, hasMore: boolean}; text that does not parse, at any of the
\* three levels, gives data = [] and hasMore = false; so does the payload
\* { data: "[]", info: { more_records: "false" } }.
C14_ParseTotal ==
    ParseDone =>
        /\ DOMAIN unwrapped = {"data", "hasMore"}
        /\ unwrapped.hasMore \in BOOLEAN
        /\ DOMAIN unwrapped.data = 1..Len(unwrapped.data)
        /\ Garbled \in Levels(payload) => unwrapped = EmptyPage
        /\ payload = ScenarioPayload => unwrapped = EmptyPage

\* the scenario payload has been parsed
C14_Witness ==
    /\ ParseDone
    /\ payload = ScenarioPayload
    /\ unwrapped = EmptyPage

\* an object exposing a data array together with info
IsPageObject(v) ==
    /\ v.t = "object"
    /\ Prop(v, "data").t = "array"
    /\ Prop(v, "info").t = "object"

FlagSet(v) == Prop(Prop(v, "info"), "more_records") \in {PBool(TRUE), Encoded(PBool(TRUE))}

\* C15: when the payload is, at some unwrapping level, an object exposing a
\* data array together with info.more_records, the result carries that array
\* and hasMore is true exactly when the flag is true or "true".
C15_FlagHonoured ==
    ParseDone =>
        \A lv \in Levels(payload) :
            IsPageObject(Unstring(lv)) =>
                /\ unwrapped.data = Prop(Unstring(lv), "data").items
                /\ unwrapped.hasMore = FlagSet(Unstring(lv))

(***************************************************************************)
(* buildHierarchy                                                          *)
(***************************************************************************)
\* variant: a Map that files every occurrence of a key as a new entry
KeysInOrder_All(keys) == keys

\* the keys of a Map in insertion order: each value once, where it first occurs
RECURSIVE KeysInOrder(_)
KeysInOrder(keys) ==
    IF keys = <<>> THEN <<>>
    ELSE LET front == KeysInOrder(SubSeq(keys, 1, Len(keys) - 1))
             last  == keys[Len(keys)]
         IN  IF \E i \in DOMAIN front : front[i] = last THEN front ELSE Append(front, last)

\* variant: the org key is the ZUID as it is
orgKeyOf_NoDefault(rec) == rec.ZUID

\* rec.ZUID ?? "unknown"
orgKeyOf(rec) == Coalesce(rec.ZUID, Str(UnknownLc))

\* variant: the comparator puts the oldest first
byLatest_Ascending(a, b) ==
    LET da == DateOf(a.latest)
        db == DateOf(b.latest)
    IN  IF da.nan \/ db.nan THEN 0 ELSE da.ms - db.ms

\* (a, b) => new Date(b.latest) - new Date(a.latest)
byLatest(a, b) ==
    LET da == DateOf(a.latest)
        db == DateOf(b.latest)
    IN  IF da.nan \/ db.nan THEN 0 ELSE db.ms - da.ms

\* Array.prototype.sort with byLatest (a stable sort)
RECURSIVE SortByLatest(_)
SortByLatest(nodes) ==
    IF nodes = <<>> THEN <<>>
    ELSE LET sorted == SortByLatest(SubSeq(nodes, 1, Len(nodes) - 1))
             x      == nodes[Len(nodes)]
             \* x goes behind the last element it does not precede
             behind == {i \in DOMAIN sorted : byLatest(sorted[i], x) <= 0}
             k      == IF behind = {} THEN 0 ELSE CHOOSE i \in behind : \A j \in behind : j <= i
         IN  SubSeq(sorted, 1, k) \o <<x>> \o SubSeq(sorted, k + 1, Len(sorted))

\* variant: a node counts its children, not their records
SumCounts_Children(nodes) == Len(nodes)

\* nodes.reduce((s, n) => s + n.count, 0)
RECURSIVE SumCounts(_)
SumCounts(nodes) ==
    IF nodes = <<>> THEN 0
    ELSE SumCounts(SubSeq(nodes, 1, Len(nodes) - 1)) + nodes[Len(nodes)].count

\* lines 216-219: one org leaf from the records pushed under it
OrgNode(orgKey, recs) ==
    LET sorted == SortByTimeDesc(recs)
    IN  [orgKey |-> orgKey, records |-> sorted, count |-> Len(sorted),
         latest |-> EffectiveTime(sorted[1])]

\* lines 215-221
FlowNode(flow, recs) ==
    LET keys == KeysInOrder([i \in DOMAIN recs |-> orgKeyOf(recs[i])])
        Under(k) == LET Has(r) == orgKeyOf(r) = k IN SelectSeq(recs, Has)
        orgs == SortByLatest([i \in DOMAIN keys |-> OrgNode(keys[i], Under(keys[i]))])
    IN  [flow |-> flow, orgs |-> orgs, count |-> SumCounts(orgs), latest |-> orgs[1].latest]

\* lines 214-223
ZoidNode(zoid, recs) ==
    LET keys == KeysInOrder([i \in DOMAIN recs |-> recs[i].Flow_Type])
        Under(k) == LET Has(r) == r.Flow_Type = k IN SelectSeq(recs, Has)
        flows == SortByLatest([i \in DOMAIN keys |-> FlowNode(keys[i], Under(keys[i]))])
    IN  [zoid |-> zoid, sample |-> recs[1], flows |-> flows,
         count |-> SumCounts(flows), latest |-> flows[1].latest]

\* lines 213-225
NameNode(name, recs) ==
    LET keys == KeysInOrder([i \in DOMAIN recs |-> recs[i].ZOID])
        Under(k) == LET Has(r) == r.ZOID = k IN SelectSeq(recs, Has)
        zoids == SortByLatest([i \in DOMAIN keys |-> ZoidNode(keys[i], Under(keys[i]))])
    IN  [name |-> name, sample |-> recs[1], zoids |-> zoids,
         count |-> SumCounts(zoids), latest |-> zoids[1].latest]

\* lines 198-226
buildHierarchy(records) ==
    LET keys == KeysInOrder([i \in DOMAIN records |-> records[i].Name])
        Under(k) == LET Has(r) == r.Name = k IN SelectSeq(records, Has)
    IN  SortByLatest([i \in DOMAIN keys |-> NameNode(keys[i], Under(keys[i]))])

\* records handed to buildHierarchy at most
MaxRecs == 3

NameAb == Str(<<"a", "b">>)

\* the records buildHierarchy is fed, as the normaliser renders them: four of
\* one org (two of them with the same time, one without a time), two of the
\* "unknown" org (one by default, one by name), and one each that differs in
\* flow, in tenant, in application (without a time), in flow and org
HierPool ==
    { normaliseRaw([id |-> Num(1), Name |-> NameAb, ZOID |-> Num(42), ZUID |-> Num(7),
                    Request_Time |-> Str(StampMar)], "publishfailure"),
      normaliseRaw([id |-> Num(2), Name |-> NameAb, ZOID |-> Num(42), ZUID |-> Num(7),
                    Created_Time |-> Str(StampFeb)], "publishfailure"),
      normaliseRaw([id |-> Num(3), Name |-> NameAb, ZOID |-> Num(42), ZUID |-> Num(7),
                    Request_Time |-> Str(StampFeb)], "publishfailure"),
      normaliseRaw([id |-> Num(4), Name |-> NameAb, ZOID |-> Num(42), ZUID |-> Num(7)],
                   "publishfailure"),
      normaliseRaw([id |-> Num(5), Name |-> NameAb, ZOID |-> Num(42),
                    Request_Time |-> Str(StampJan)], "publishfailure"),
      normaliseRaw([id |-> Num(6), Name |-> NameAb, ZOID |-> Num(42), ZUID |-> Str(UnknownLc),
                    Created_Time |-> Str(StampFeb)], "publishfailure"),
      normaliseRaw([id |-> Num(7), Name |-> NameAb, ZOID |-> Num(42), ZUID |-> Num(7),
                    Request_Time |-> Str(StampFeb)], "signupfailure"),
      normaliseRaw([id |-> Num(8), Name |-> NameAb, ZOID |-> Num(43), ZUID |-> Num(7),
                    Request_Time |-> Str(StampJan)], "publishfailure"),
      normaliseRaw([id |-> Num(9), ZOID |-> Num(42), ZUID |-> Num(7)], "publishfailure"),
      normaliseRaw([id |-> Num(10), Name |-> NameAb, ZOID |-> Num(42)], "signupfailure") }

InitHier ==
    /\ NormIdle
    /\ FetchIdle
    /\ ParseIdle
    /\ ViewIdle
    /\ DiagIdle
    /\ LoadIdle
    /\ flat \in UNION {[1..n -> HierPool] : n \in 0..MaxRecs}
    /\ tree = <<>>
    /\ hpc = "flat"

\* variant: the records are sorted where they are, in the caller's array
recordsAfterBuild_Sorted(records) == SortByTimeDesc(records)

\* the caller's array after a call: the loop of lines 200-211 only reads it
\* and its records, and line 217 sorts a copy ([...recs]) of each leaf list
recordsAfterBuild(records) == records

\* one call of buildHierarchy
BuildStep ==
    /\ hpc = "flat"
    /\ tree' = buildHierarchy(flat)
    /\ flat' = recordsAfterBuild(flat)
    /\ hpc' = "done"
    /\ UNCHANGED <<normVars, envVars, fetchVars, parseVars, viewVars, diagVars, loadVars>>

\* a second call of buildHierarchy on the same array (the tree memo of line
\* 993 recomputes whenever a filter changes)
BuildAgain ==
    /\ hpc = "done"
    /\ tree' = buildHierarchy(flat)
    /\ flat' = recordsAfterBuild(flat)
    /\ hpc' = "again"
    /\ UNCHANGED <<normVars, envVars, fetchVars, parseVars, viewVars, diagVars, loadVars>>

NextHier == BuildStep \/ BuildAgain

SpecHier == InitHier /\ [][NextHier]_vars

(***************************************************************************)
(* Properties of buildHierarchy (checked under SpecHier)                   *)
(***************************************************************************)
HierDone == hpc = "done"

\* the nodes of the returned forest, level by level
AppNodes  == {tree[i] : i \in DOMAIN tree}
ZoidNodes == UNION {{a.zoids[i] : i \in DOMAIN a.zoids} : a \in AppNodes}
FlowNodes == UNION {{z.flows[i] : i \in DOMAIN z.flows} : z \in ZoidNodes}
OrgNodes  == UNION {{f.orgs[i] : i \in DOMAIN f.orgs} : f \in FlowNodes}

\* the sum of the count fields of a list of nodes
RECURSIVE Total(_)
Total(nodes) ==
    IF nodes = <<>> THEN 0 ELSE nodes[1].count + Total(Tail(nodes))

\* C16: at every level a node's count is the sum of the counts of its
\* children (application = sum of tenants, tenant = sum of flows, flow = sum
\* of orgs), and an org's count is the length of its record list.
C16_CountsAdditive ==
    HierDone =>
        /\ \A a \in AppNodes  : a.count = Total(a.zoids)
        /\ \A z \in ZoidNodes : z.count = Total(z.flows)
        /\ \A f \in FlowNodes : f.count = Total(f.orgs)
        /\ \A o \in OrgNodes  : o.count = Len(o.records)

\* an application with two tenants and three records, two of them in one org
C16_Witness ==
    /\ HierDone
    /\ \E a \in AppNodes : Len(a.zoids) = 2 /\ a.count = MaxRecs
    /\ \E o \in OrgNodes : o.count = 2


\* the records beneath a node
RecsOfOrg(o)  == Range(o.records)
RecsOfFlow(f) == UNION {RecsOfOrg(o) : o \in Range(f.orgs)}
RecsOfZoid(z) == UNION {RecsOfFlow(f) : f \in Range(z.flows)}
RecsOfApp(a)  == UNION {RecsOfZoid(z) : z \in Range(a.zoids)}

\* a timestamp as a point in time (none counts as the epoch)
TimeOf(v) == DateOf(v).ms

\* siblings in descending order of their latest timestamp
Descending(nodes) ==
    \A i, j \in DOMAIN nodes : i < j => TimeOf(nodes[i].latest) >= TimeOf(nodes[j].latest)

\* latest is the effective timestamp of a record beneath, and none is later
LatestIsMax(latest, recs) ==
    /\ \E r \in recs : EffectiveTime(r) = latest
    /\ \A r \in recs : TimeOf(EffectiveTime(r)) <= TimeOf(latest)

\* C17: at each of the four levels siblings are in descending order of their
\* latest timestamp, and a node's latest timestamp is the maximum effective
\* timestamp (Request_Time, else Created_Time) of the records beneath it.
C17_SortedByLatest ==
    HierDone =>
        /\ Descending(tree)
        /\ \A a \in AppNodes  : Descending(a.zoids) /\ LatestIsMax(a.latest, RecsOfApp(a))
        /\ \A z \in ZoidNodes : Descending(z.flows) /\ LatestIsMax(z.latest, RecsOfZoid(z))
        /\ \A f \in FlowNodes : Descending(f.orgs)  /\ LatestIsMax(f.latest, RecsOfFlow(f))
        /\ \A o \in OrgNodes  : LatestIsMax(o.latest, RecsOfOrg(o))

\* the application met first comes second because the other is more recent,
\* and the most recent record of some org was not met first
C17_Witness ==
    /\ HierDone
    /\ Len(tree) = 2
    /\ tree[2].sample = flat[1]
    /\ TimeOf(tree[1].latest) > TimeOf(tree[2].latest)
    /\ \E o \in OrgNodes : o.count = 2 /\ o.records[1] = flat[Len(flat)]
                              /\ TimeOf(o.latest) > TimeOf(EffectiveTime(o.records[2]))

\* the four grouping keys of a record, an absent ZUID read as "unknown"
LeafKey(r) ==
    <<r.Name, r.ZOID, r.Flow_Type, IF r.ZUID.t = "null" THEN Str(UnknownLc) ELSE r.ZUID>>

\* the input records that belong in the leaf of x and carry the time of x
SameLeafAndTime(x) ==
    LET Is(r) == LeafKey(r) = LeafKey(x) /\ EffectiveTime(r) = EffectiveTime(x)
    IN  SelectSeq(flat, Is)

\* the records of leaf o that carry the time of x
SameTimeIn(o, x) ==
    LET Is(r) == EffectiveTime(r) = EffectiveTime(x)
    IN  SelectSeq(o.records, Is)

\* C18: the records of every org leaf are in non-increasing order of
\* effective timestamp (a record with time T precedes one with time T-1),
\* and records with equal timestamps keep their relative input order.
C18_LeafOrderStable ==
    HierDone =>
        \A o \in OrgNodes :
            /\ \A i, j \in DOMAIN o.records :
                  i < j => TimeOf(EffectiveTime(o.records[i])) >= TimeOf(EffectiveTime(o.records[j]))
            /\ \A x \in RecsOfOrg(o) : SameTimeIn(o, x) = SameLeafAndTime(x)

\* a leaf of three: the latest record came last in the input and is first
\* in the leaf, the two that tie are in input order
C18_Witness ==
    /\ HierDone
    /\ Len(flat) = 3
    /\ \E o \in OrgNodes :
          /\ o.count = 3
          /\ o.records = <<flat[3], flat[1], flat[2]>>
          /\ flat[1] # flat[2]
          /\ EffectiveTime(flat[1]) = EffectiveTime(flat[2])
          /\ TimeOf(EffectiveTime(flat[3])) > TimeOf(EffectiveTime(flat[1]))

\* neither Request_Time nor Created_Time
Timeless(r) == EffectiveTime(r) = Null

TimelessLast(nodes) ==
    \A i, j \in DOMAIN nodes : (nodes[i].latest = Null /\ nodes[j].latest # Null) => j < i

\* C19: buildHierarchy returns a forest for every input, records without a
\* timestamp included; in a leaf such records come after every record with a
\* timestamp, at each node level a node whose records all lack a timestamp
\* comes after every sibling that has one, and empty input gives the empty
\* forest.
C19_TimelessLast ==
    HierDone =>
        /\ DOMAIN tree = 1..Len(tree)
        /\ flat = <<>> <=> tree = <<>>
        /\ TimelessLast(tree)
        /\ \A a \in AppNodes  : TimelessLast(a.zoids) /\ (a.latest = Null <=> \A r \in RecsOfApp(a) : Timeless(r))
        /\ \A z \in ZoidNodes : TimelessLast(z.flows) /\ (z.latest = Null <=> \A r \in RecsOfZoid(z) : Timeless(r))
        /\ \A f \in FlowNodes : TimelessLast(f.orgs) /\ (f.latest = Null <=> \A r \in RecsOfFlow(f) : Timeless(r))
        /\ \A o \in OrgNodes :
              \A i, j \in DOMAIN o.records :
                  (Timeless(o.records[i]) /\ ~Timeless(o.records[j])) => j < i

\* the input begins with a record without a timestamp: its application ends
\* up behind the other one, and in some leaf a timeless record that came
\* first in the input stands behind one with a timestamp
C19_Witness ==
    /\ HierDone
    /\ flat # <<>>
    /\ Timeless(flat[1])
    /\ \/ /\ Len(tree) = 2
          /\ tree[2].latest = Null
          /\ tree[2].sample = flat[1]
          /\ tree[1].latest # Null
       \/ \E o \in OrgNodes :
             /\ o.count = 2
             /\ o.records[2] = flat[1]
             /\ ~Timeless(o.records[1])

\* the leaf a record ended up in
InSameLeaf(r, s) == \E o \in OrgNodes : r \in RecsOfOrg(o) /\ s \in RecsOfOrg(o)

\* C20: two records are in the same org leaf if and only if they agree on
\* Name, ZOID, Flow_Type and ZUID, a null ZUID counting as "unknown"; the
\* records under one tenant node all carry that node's ZOID.
C20_GroupedByKeys ==
    HierDone =>
        /\ \A i, j \in DOMAIN flat :
              InSameLeaf(flat[i], flat[j]) <=> LeafKey(flat[i]) = LeafKey(flat[j])
        /\ \A o \in OrgNodes : \A r \in RecsOfOrg(o) : LeafKey(r)[4] = o.orgKey
        /\ \A z \in ZoidNodes : \A r \in RecsOfZoid(z) : r.ZOID = z.zoid

\* a record without ZUID and one whose ZUID is "unknown" share a leaf, while
\* a record of another tenant sits under another tenant node
C20_Witness ==
    /\ HierDone
    /\ \E o \in OrgNodes :
          /\ o.orgKey = Str(UnknownLc)
          /\ \E r, s \in RecsOfOrg(o) : r.ZUID = Null /\ s.ZUID = Str(UnknownLc)
    /\ \E a \in AppNodes : Len(a.zoids) = 2

(***************************************************************************)
(* Properties of the aggregator (checked under SpecFetch)                  *)
(***************************************************************************)
RequestedPagesWithinCap ==
    /\ \A i \in DOMAIN requests : requests[i].page \in 1..MaxPages
    /\ fpc = "await" => page \in 1..MaxPages

\* an upper bound on the steps fetchAllRecords still has to take: six per
\* page (the calls, four responses, the fan-in) and the return
PendingCalls == Cardinality({s \in SourceSet : call[s] = "pending"})

StepsLeft ==
    CASE fpc = "idle"  -> 6 * MaxPages + 2
      [] fpc = "loop"  -> 6 * (MaxPages + 1 - page) + 1
      [] fpc = "await" -> 6 * (MaxPages - page) + 2 + PendingCalls
      [] OTHER         -> 0

\* until it has returned, fetchAllRecords can take a step (a pending source
\* call can complete), and every step brings the return nearer
C7_Progress ==
    /\ fpc # "done" =>
          \/ ENABLED CallFetchAll
          \/ ENABLED StartPage
          \/ ENABLED ReturnAll
          \/ \E s \in SourceSet : Awaiting(s)
          \/ FanIn
    /\ StepsLeft >= 0

C7_StepsDecrease == [][StepsLeft' < StepsLeft]_vars

\* C7: whatever the sources answer, only pages 1..10 are fetched, and when
\* every source call completes fetchAllRecords returns (in a bounded number
\* of steps); it returns normally when the cap is reached with a source still
\* reporting more.
C7_CapAndTermination ==
    /\ []RequestedPagesWithinCap
    /\ []C7_Progress
    /\ C7_StepsDecrease

\* the cap is what ended the loop: ten pages fetched, more still true
C7_Witness ==
    /\ fpc = "done"
    /\ page = MaxPages + 1
    /\ more
    /\ \E i \in DOMAIN requests : requests[i].page = MaxPages
    /\ Len(all) > 0

\* the flags the sources reported for the page that was fetched last
SomeSourceHasMore == \E s \in SourceSet : result[s].hasMore

C8_Paging ==
    \* a page is being fetched only below the cap and with more set
    /\ fpc = "await" => (more /\ page \in 1..MaxPages)
    \* after page p, more is exactly "some source reported hasMore"
    /\ (fpc \in {"loop", "done"} /\ page >= 2) => (more <=> SomeSourceHasMore)
    \* page p+1 is asked for exactly when p < 10 and some source has more
    /\ (fpc = "loop" /\ page >= 2) =>
          (ENABLED StartPage <=> (page - 1 < MaxPages /\ SomeSourceHasMore))
    /\ (fpc = "done" /\ page >= 2) => ~(page - 1 < MaxPages /\ SomeSourceHasMore)
    \* while a fetch of page p is pending nothing of a later page was asked
    /\ (\E s \in SourceSet : call[s] = "pending") =>
          (fpc = "await" /\ \A i \in DOMAIN requests : requests[i].page <= page)

\* the page number moves on only when all four source fetches have completed
C8_FanIn == [][page' # page /\ page >= 1 => \A s \in SourceSet : call[s] = "done"]_vars

\* C8: page p+1 is requested if and only if p < 10, the four source fetches
\* of page p have all completed and at least one reported hasMore; no fetch
\* of page p+1 starts while a fetch of page p is pending; when all four
\* report hasMore = false no further page is requested.
C8_NextPageIffMore == []C8_Paging /\ C8_FanIn

\* page 2 under way because exactly one source reported more on page 1,
\* with some of its fetches back and some still pending
C8_Witness ==
    /\ fpc = "await"
    /\ page = 2
    /\ Cardinality({s \in SourceSet : upstream[s].more}) = 1
    /\ \E s \in SourceSet : call[s] = "pending"
    /\ \E s \in SourceSet : call[s] = "done"

\* C9: the request issued for (source, p) identifies page p: requests for two
\* different pages of one source are different requests.
C9_RequestIdentifiesPage ==
    \A i, j \in DOMAIN requests :
        (requests[i].module = requests[j].module /\ requests[i].page # requests[j].page)
            => requests[i].url # requests[j].url

Occurrences(seq, x) == Cardinality({i \in DOMAIN seq : seq[i] = x})

OtherSources == SourceSet \ {fault.src}

RECURSIVE SumLen(_)
SumLen(S) ==
    IF S = {} THEN 0
    ELSE LET s == CHOOSE s \in S : TRUE IN Len(Dataset[s]) + SumLen(S \ {s})

\* what fetchPage appended to all for the page fetched last
LastPageOutput(n) == SubSeq(all, Len(all) - n + 1, Len(all))

\* the page on which the fault struck has just been finished
FaultedPageDone ==
    /\ fault # NoFault
    /\ fpc \in {"loop", "done"}
    /\ page = fault.page + 1

\* C10: when the call of one source fails on page p (the request is
\* rejected, the body does not parse, or a record cannot be processed), that
\* source contributes no records and hasMore = false for page p, the records
\* of the other three sources are in the output of page p, and whether page
\* p+1 is fetched is decided by the other three flags alone.
C10_FailureIsolated ==
    FaultedPageDone =>
        /\ result[fault.src] = Result(<<>>, FALSE)
        /\ \A s \in OtherSources : result[s] = Result(ExpectedRecords(s), upstream[s].more)
        /\ Len(all) >= SumLen(OtherSources)
        /\ \A s \in OtherSources : \A i \in DOMAIN ExpectedRecords(s) :
              Occurrences(LastPageOutput(SumLen(OtherSources)), ExpectedRecords(s)[i])
                  = Occurrences(ExpectedRecords(s), ExpectedRecords(s)[i])
        /\ more <=> \E s \in OtherSources : upstream[s].more

\* the failing source was the only one with more to report: the others'
\* records are returned and no second page is fetched
C10_Witness ==
    /\ FaultedPageDone
    /\ fpc = "done"
    /\ fault.page = 1
    /\ upstream[fault.src].more
    /\ \A s \in OtherSources : ~upstream[s].more
    /\ Len(all) = SumLen(OtherSources)
    /\ Len(all) > 0
    /\ \A i \in DOMAIN requests : requests[i].page = 1

(***************************************************************************)
(* Further properties of buildHierarchy (checked under SpecHier)           *)
(***************************************************************************)
\* the concatenation of a list of lists
RECURSIVE Flatten(_)
Flatten(lists) ==
    IF lists = <<>> THEN <<>> ELSE lists[1] \o Flatten(Tail(lists))

\* the org leaves of a forest in display order, and the records under them
LeavesOf(forest) ==
    LET flowsOf(z) == Flatten([i \in DOMAIN z.flows |-> z.flows[i].orgs])
        zoidsOf(a) == Flatten([i \in DOMAIN a.zoids |-> flowsOf(a.zoids[i])])
    IN  Flatten([i \in DOMAIN forest |-> zoidsOf(forest[i])])

LeafRecords(forest) ==
    LET leaves == LeavesOf(forest)
    IN  Flatten([i \in DOMAIN leaves |-> leaves[i].records])

C30_NoLossNoDuplication ==
    HierDone =>
        LET leaves == LeavesOf(tree)
            out    == LeafRecords(tree)
        IN  /\ \A r \in Range(flat) \cup Range(out) :
                    /\ Occurrences(out, r) = Occurrences(flat, r)
                    /\ Cardinality({i \in DOMAIN leaves : r \in Range(leaves[i].records)}) = 1
            /\ Total(tree) = Len(flat)

\* three records, one of them twice in the input, in two leaves of two
\* applications
C30_Witness ==
    /\ HierDone
    /\ Len(flat) = MaxRecs
    /\ Cardinality(Range(flat)) = 2
    /\ Len(tree) = 2
    /\ Len(LeavesOf(tree)) = 2

(***************************************************************************)
(* The FailureLogs component: the filters and the tree memo                *)
(***************************************************************************)
\* String.prototype.includes
Includes(hay, needle) ==
    \E i \in 0..(Len(hay) - Len(needle)) : SubSeq(hay, i + 1, i + Len(needle)) = needle

FebFirst == StampFeb \o <<"-","0","1">>

\* new Date(d + "T00:00:00Z") and new Date(d + "T23:59:59Z") for the value d
\* of a date input, in days: the model's records carry times at midnight, so
\* a time is after 23:59:59 of a day exactly when its day is later
DayOfInput(d) == DateOf(Str(SubSeq(d, 1, Len(StampFeb)))).ms

\* the day getDayBounds(offset) spans, for a page viewed on the latest day
\* the model's records carry
DayBounds(offset) == DateOf(Str(StampMar)).ms - offset

\* useState({ Publish: true, Signup: true, Invite: true, Upgrade: true })
AllFlows == [n \in {PublishStr, SignupStr, InviteStr, UpgradeStr} |-> TRUE]

\* the values of the six useState hooks of lines 946-951, which are also
\* what resetFilters sets
ResetState ==
    [searchQuery |-> <<>>, dateFrom |-> <<>>, dateTo |-> <<>>, errCode |-> <<>>,
     flowFilters |-> AllFlows, quickView |-> "all"]

\* flowFilters[rec.Flow_Type ?? ""]: undefined, hence falsy, for a key the
\* object does not have
FlowBox(f, rec) ==
    LET key == JsString(Coalesce(rec.Flow_Type, EmptyStr))
    IN  IF key \in DOMAIN f.flowFilters THEN f.flowFilters[key] ELSE FALSE

\* ts lies outside the day; every comparison with an Invalid Date is false
OutsideDay(ts, day) == ~ts.nan /\ (ts.ms < day \/ ts.ms > day)

\* the callback of rawRecords.filter, lines 995-1010
Passes(f, rec) ==
    LET ts == DateOf(EffectiveTime(rec))
        searchable ==
            LET vals == <<rec.Name, rec.ZOID, rec.ZUID, rec.ServerName, rec.threadid, rec.requestid>>
            IN  {ToLowerCase(JsString(vals[i])) : i \in {j \in DOMAIN vals : ~Falsy(vals[j])}}
    IN  /\ ~(f.quickView = "with-trace" /\ Falsy(rec.Exception_trace))
        /\ ~(f.quickView = "no-trace" /\ ~Falsy(rec.Exception_trace))
        /\ ~(f.quickView = "today" /\ OutsideDay(ts, DayBounds(0)))
        /\ ~(f.quickView = "yesterday" /\ OutsideDay(ts, DayBounds(1)))
        /\ FlowBox(f, rec)
        /\ ~(f.dateFrom # <<>> /\ ~ts.nan /\ ts.ms < DayOfInput(f.dateFrom))
        /\ ~(f.dateTo # <<>> /\ ~ts.nan /\ ts.ms > DayOfInput(f.dateTo))
        /\ ~(/\ f.errCode # <<>>
             /\ ~Includes(ToLowerCase(JsString(Coalesce(rec.Statuscode, EmptyStr))),
                          ToLowerCase(f.errCode)))
        /\ ~(/\ f.searchQuery # <<>>
             /\ ~\E v \in searchable : Includes(v, ToLowerCase(f.searchQuery)))

\* const filtered = rawRecords.filter(...)
Filtered(recs, f) == LET Keep(rec) == Passes(f, rec) IN SelectSeq(recs, Keep)

\* loaded records at most
MaxLoaded == 2

AuditStr == <<"A","u","d","i","t">>

\* the records the component may hold: two fetched from fixed sources (one
\* with a trace and a status code, one with neither) and one whose
\* flow type is none of the four fixed names (line 101 passes the flow field
\* of a record of any other source module through; getFromCache hands on
\* whatever records a parseable item of localStorage holds)
ViewPool ==
    { normaliseRaw([id |-> Num(1), Name |-> NameAb, ZOID |-> Num(42), ZUID |-> Num(7),
                    Request_Time |-> Str(StampMar), Statuscode |-> Num(500),
                    Exception_trace |-> Str(<<"a","t"," ","x">>)], "publishfailure"),
      normaliseRaw([id |-> Num(2), Name |-> NameAb, ZOID |-> Num(42),
                    Created_Time |-> Str(StampFeb)], "signupfailure"),
      normaliseRaw([id |-> Num(3), Name |-> NameAb, ZOID |-> Num(42),
                    Request_Time |-> Str(StampJan), Flow_Type |-> Str(AuditStr)], "auditfailure") }

\* const tree = useMemo(...), lines 993-1012: a value computed from the
\* loaded records and the six filters on every render
treeMemo == buildHierarchy(Filtered(rawRecords, filters))

InitView ==
    /\ NormIdle
    /\ FetchIdle
    /\ ParseIdle
    /\ DiagIdle
    /\ HierIdle
    /\ LoadIdle
    /\ rawRecords = <<>>
    /\ filters = ResetState

\* line 967: the load cycle of the mount effect hands over its records
setRawRecords ==
    /\ rawRecords = <<>>
    /\ \E recs \in UNION {[1..n -> ViewPool] : n \in 0..MaxLoaded} :
           /\ rawRecords' = recs
           /\ UNCHANGED <<normVars, envVars, fetchVars, parseVars, hierVars, diagVars, loadVars, filters>>

SetFilter(f) ==
    /\ filters' = f
    /\ UNCHANGED <<normVars, envVars, fetchVars, parseVars, hierVars, diagVars, loadVars, rawRecords>>

\* line 1095
SetQuickView ==
    \E q \in {"all", "with-trace", "no-trace", "today", "yesterday"} :
        SetFilter([filters EXCEPT !.quickView = q])

\* line 1112
SetSearchQuery == \E q \in {<<>>, <<"4","3">>} : SetFilter([filters EXCEPT !.searchQuery = q])

\* line 1123
ToggleFlow ==
    \E v \in DOMAIN AllFlows :
        SetFilter([filters EXCEPT !.flowFilters[v] = ~filters.flowFilters[v]])

\* line 1135
SetDateFrom == \E d \in {<<>>, FebFirst} : SetFilter([filters EXCEPT !.dateFrom = d])

SetDateTo == \E d \in {<<>>, FebFirst} : SetFilter([filters EXCEPT !.dateTo = d])

\* line 1150
SetErrCode == \E c \in {<<>>, <<"5","0">>} : SetFilter([filters EXCEPT !.errCode = c])

\* line 1017
resetFilters == SetFilter(ResetState)

NextView ==
    \/ setRawRecords
    \/ SetQuickView
    \/ SetSearchQuery
    \/ ToggleFlow
    \/ SetDateFrom
    \/ SetDateTo
    \/ SetErrCode
    \/ resetFilters

SpecView == InitView /\ [][NextView]_vars

\* const totalVisible = tree.reduce((s, d) => s + d.count, 0)
totalVisible == SumCounts(treeMemo)

\* C28: with the filters in their reset state the tree holds every loaded
\* record, whatever its flow type: the visible total is the number of loaded
\* records.
C28_ResetShowsAll ==
    filters = ResetState => totalVisible = Len(rawRecords)

(***************************************************************************)
(* The exception analyzer: regular expressions                             *)
(***************************************************************************)
\* the pieces the table's expressions are made of: a literal character, a
\* run of digits (\d+), a run of any characters but line ends (.*), and a
\* word character (\w)
LitChar(c) == [k |-> "lit", c |-> c]
DigitRun   == [k |-> "digits", c |-> " "]
AnyRun     == [k |-> "any", c |-> " "]
WordChar   == [k |-> "word", c |-> " "]

Lit(cs) == [i \in DOMAIN cs |-> LitChar(cs[i])]

\* /.../ and /.../i
Re(pieces, ignoreCase) == [pieces |-> pieces, ignoreCase |-> ignoreCase]

IsDigit(c) == \E i \in DOMAIN Digits : Digits[i] = c

IsWord(c) ==
    \/ IsDigit(c)
    \/ c = "_"
    \/ \E i \in DOMAIN Lower : Lower[i] = c \/ Upper[i] = c

\* the pieces match a stretch of s that begins at position i
RECURSIVE MatchFrom(_, _, _)
MatchFrom(pieces, s, i) ==
    IF pieces = <<>> THEN TRUE
    ELSE LET h    == Head(pieces)
             rest == Tail(pieces)
         IN  CASE h.k = "lit" ->
                    /\ i <= Len(s)
                    /\ s[i] = h.c
                    /\ MatchFrom(rest, s, i + 1)
               [] h.k = "word" ->
                    /\ i <= Len(s)
                    /\ IsWord(s[i])
                    /\ MatchFrom(rest, s, i + 1)
               [] h.k = "digits" ->
                    \E j \in i..Len(s) :
                        /\ \A m \in i..j : IsDigit(s[m])
                        /\ MatchFrom(rest, s, j + 1)
               [] h.k = "any" ->
                    \E j \in i..(Len(s) + 1) :
                        /\ \A m \in i..(j - 1) : s[m] # "\n"
                        /\ MatchFrom(rest, s, j)

\* the i flag: letters are compared without regard to case, as if both the
\* expression and the text were in lower case
Fold(pieces) == [i \in DOMAIN pieces |-> [pieces[i] EXCEPT !.c = ToLowerChar(@)]]

\* RegExp.prototype.test for an expression without the g flag: a match
\* anywhere in s
Test(re, s) ==
    LET pieces == IF re.ignoreCase THEN Fold(re.pieces) ELSE re.pieces
        text   == IF re.ignoreCase THEN ToLowerCase(s) ELSE s
    IN  \E i \in 1..(Len(s) + 1) : MatchFrom(pieces, text, i)

(***************************************************************************)
(* The exception analyzer: the rule table                                  *)
(***************************************************************************)
\* line 11
Rule1 ==
    [patterns |-> <<Re(Lit(<<"N", "u", "l", "l", "P", "o", "i", "n", "t", "e", "r", "E", "x", "c",
      "e", "p", "t", "i", "o", "n">>), TRUE), Re(Lit(<<"N", "P", "E">>), FALSE)>>, title |-> <<"N",
      "u", "l", "l", " ", "P", "o", "i", "n", "t", "e", "r", " ", "E", "x", "c", "e", "p", "t", "i",
      "o", "n">>, rootCause |-> <<"A", " ", "v", "a", "r", "i", "a", "b", "l", "e", " ", "o", "r",
      " ", "o", "b", "j", "e", "c", "t", " ", "r", "e", "f", "e", "r", "e", "n", "c", "e", " ", "i",
      "s", " ", "'", "n", "u", "l", "l", "'", " ", "w", "h", "e", "n", " ", "t", "h", "e", " ", "c",
      "o", "d", "e", " ", "t", "r", "i", "e", "s", " ", "t", "o", " ", "u", "s", "e", " ", "i", "t",
      ".">>, severity |-> <<"h", "i", "g", "h">>]

\* line 12
Rule2 ==
    [patterns |-> <<Re(Lit(<<"C", "l", "a", "s", "s", "N", "o", "t", "F", "o", "u", "n", "d", "E",
      "x", "c", "e", "p", "t", "i", "o", "n">>), TRUE), Re(Lit(<<"N", "o", "C", "l", "a", "s", "s",
      "D", "e", "f", "F", "o", "u", "n", "d", "E", "r", "r", "o", "r">>), TRUE)>>, title |-> <<"C",
      "l", "a", "s", "s", " ", "N", "o", "t", " ", "F", "o", "u", "n", "d">>, rootCause |-> <<"A",
      " ", "r", "e", "q", "u", "i", "r", "e", "d", " ", "c", "l", "a", "s", "s", " ", "i", "s", " ",
      "m", "i", "s", "s", "i", "n", "g", " ", "f", "r", "o", "m", " ", "t", "h", "e", " ", "c", "l",
      "a", "s", "s", "p", "a", "t", "h", " ", "a", "t", " ", "r", "u", "n", "t", "i", "m", "e",
      ".">>, severity |-> <<"c", "r", "i", "t", "i", "c", "a", "l">>]

\* line 13
Rule3 ==
    [patterns |-> <<Re(Lit(<<"C", "o", "n", "n", "e", "c", "t", "i", "o", "n", "T", "i", "m", "e",
      "o", "u", "t">>), TRUE), Re(Lit(<<"S", "o", "c", "k", "e", "t", "T", "i", "m", "e", "o", "u",
      "t", "E", "x", "c", "e", "p", "t", "i", "o", "n">>), TRUE), Re(Lit(<<"C", "o", "n", "n", "e",
      "c", "t", "E", "x", "c", "e", "p", "t", "i", "o", "n">>), TRUE), Re(Lit(<<"C", "o", "n", "n",
      "e", "c", "t", "i", "o", "n", " ", "r", "e", "f", "u", "s", "e", "d">>), TRUE), Re(Lit(<<"C",
      "o", "n", "n", "e", "c", "t", "i", "o", "n", " ", "t", "i", "m", "e", "d", " ", "o", "u",
      "t">>), TRUE)>>, title |-> <<"C", "o", "n", "n", "e", "c", "t", "i", "o", "n", " ", "/", " ",
      "T", "i", "m", "e", "o", "u", "t", " ", "E", "r", "r", "o", "r">>, rootCause |-> <<"T", "h",
      "e", " ", "s", "e", "r", "v", "e", "r", " ", "c", "o", "u", "l", "d", " ", "n", "o", "t", " ",
      "e", "s", "t", "a", "b", "l", "i", "s", "h", " ", "o", "r", " ", "m", "a", "i", "n", "t", "a",
      "i", "n", " ", "a", " ", "n", "e", "t", "w", "o", "r", "k", " ", "c", "o", "n", "n", "e", "c",
      "t", "i", "o", "n", " ", "w", "i", "t", "h", "i", "n", " ", "t", "h", "e", " ", "a", "l", "l",
      "o", "w", "e", "d", " ", "t", "i", "m", "e", ".">>, severity |-> <<"h", "i", "g", "h">>]

\* line 14
Rule4 ==
    [patterns |-> <<Re(Lit(<<"S", "Q", "L", "E", "x", "c", "e", "p", "t", "i", "o", "n">>), TRUE),
      Re(Lit(<<"O", "R", "A", "-">>) \o <<DigitRun>>, TRUE), Re(Lit(<<"M", "y", "S", "Q", "L", "E",
      "x", "c", "e", "p", "t", "i", "o", "n">>), TRUE), Re(Lit(<<"D", "a", "t", "a", "A", "c", "c",
      "e", "s", "s", "E", "x", "c", "e", "p", "t", "i", "o", "n">>), TRUE), Re(Lit(<<"J", "D", "B",
      "C", "E", "x", "c", "e", "p", "t", "i", "o", "n">>), TRUE), Re(Lit(<<"d", "e", "a", "d", "l",
      "o", "c", "k">>), TRUE), Re(Lit(<<"d", "u", "p", "l", "i", "c", "a", "t", "e", " ", "k", "e",
      "y">>), TRUE), Re(Lit(<<"D", "u", "p", "l", "i", "c", "a", "t", "e", " ", "e", "n", "t", "r",
      "y">>), TRUE)>>, title |-> <<"D", "a", "t", "a", "b", "a", "s", "e", " ", "E", "r", "r", "o",
      "r">>, rootCause |-> <<"A", " ", "d", "a", "t", "a", "b", "a", "s", "e", " ", "o", "p", "e",
      "r", "a", "t", "i", "o", "n", " ", "f", "a", "i", "l", "e", "d", ".">>, severity |-> <<"h",
      "i", "g", "h">>]

\* line 15
Rule5 ==
    [patterns |-> <<Re(Lit(<<"O", "u", "t", "O", "f", "M", "e", "m", "o", "r", "y", "E", "r", "r",
      "o", "r">>), TRUE), Re(Lit(<<"J", "a", "v", "a", " ", "h", "e", "a", "p", " ", "s", "p", "a",
      "c", "e">>), TRUE), Re(Lit(<<"G", "C", " ", "o", "v", "e", "r", "h", "e", "a", "d", " ", "l",
      "i", "m", "i", "t">>), TRUE), Re(Lit(<<"P", "e", "r", "m", "G", "e", "n", " ", "s", "p", "a",
      "c", "e">>), TRUE)>>, title |-> <<"O", "u", "t", " ", "o", "f", " ", "M", "e", "m", "o", "r",
      "y", " ", "E", "r", "r", "o", "r">>, rootCause |-> <<"T", "h", "e", " ", "J", "V", "M", " ",
      "r", "a", "n", " ", "o", "u", "t", " ", "o", "f", " ", "h", "e", "a", "p", " ", "m", "e", "m",
      "o", "r", "y", ".">>, severity |-> <<"c", "r", "i", "t", "i", "c", "a", "l">>]

\* line 16
Rule6 ==
    [patterns |-> <<Re(Lit(<<"S", "t", "a", "c", "k", "O", "v", "e", "r", "f", "l", "o", "w", "E",
      "r", "r", "o", "r">>), TRUE), Re(Lit(<<"s", "t", "a", "c", "k", " ", "o", "v", "e", "r", "f",
      "l", "o", "w">>), TRUE)>>, title |-> <<"S", "t", "a", "c", "k", " ", "O", "v", "e", "r", "f",
      "l", "o", "w">>, rootCause |-> <<"I", "n", "f", "i", "n", "i", "t", "e", " ", "o", "r", " ",
      "e", "x", "c", "e", "s", "s", "i", "v", "e", "l", "y", " ", "d", "e", "e", "p", " ", "r", "e",
      "c", "u", "r", "s", "i", "o", "n", ".">>, severity |-> <<"h", "i", "g", "h">>]

\* line 17
Rule7 ==
    [patterns |-> <<Re(Lit(<<"4", "0", "0">>), FALSE), Re(Lit(<<"B", "a", "d", " ", "R", "e", "q",
      "u", "e", "s", "t">>), TRUE), Re(Lit(<<"I", "n", "v", "a", "l", "i", "d", "P", "a", "r", "a",
      "m", "e", "t", "e", "r">>), TRUE), Re(Lit(<<"V", "a", "l", "i", "d", "a", "t", "i", "o", "n",
      "E", "x", "c", "e", "p", "t", "i", "o", "n">>), TRUE), Re(Lit(<<"C", "o", "n", "s", "t", "r",
      "a", "i", "n", "t", "V", "i", "o", "l", "a", "t", "i", "o", "n">>), TRUE)>>, title |-> <<"B",
      "a", "d", " ", "R", "e", "q", "u", "e", "s", "t", " ", "/", " ", "V", "a", "l", "i", "d", "a",
      "t", "i", "o", "n", " ", "E", "r", "r", "o", "r", " ", "(", "4", "0", "0", ")">>, rootCause
      |-> <<"T", "h", "e", " ", "r", "e", "q", "u", "e", "s", "t", " ", "c", "o", "n", "t", "a",
      "i", "n", "e", "d", " ", "i", "n", "v", "a", "l", "i", "d", ",", " ", "m", "i", "s", "s", "i",
      "n", "g", ",", " ", "o", "r", " ", "m", "a", "l", "f", "o", "r", "m", "e", "d", " ", "p", "a",
      "r", "a", "m", "e", "t", "e", "r", "s", ".">>, severity |-> <<"m", "e", "d", "i", "u", "m">>]

\* line 18
Rule8 ==
    [patterns |-> <<Re(Lit(<<"4", "0", "1">>), FALSE), Re(Lit(<<"4", "0", "3">>), FALSE),
      Re(Lit(<<"U", "n", "a", "u", "t", "h", "o", "r", "i", "z", "e", "d">>), TRUE), Re(Lit(<<"F",
      "o", "r", "b", "i", "d", "d", "e", "n">>), TRUE), Re(Lit(<<"A", "c", "c", "e", "s", "s", "D",
      "e", "n", "i", "e", "d", "E", "x", "c", "e", "p", "t", "i", "o", "n">>), TRUE), Re(Lit(<<"A",
      "u", "t", "h", "e", "n", "t", "i", "c", "a", "t", "i", "o", "n", "E", "x", "c", "e", "p", "t",
      "i", "o", "n">>), TRUE), Re(Lit(<<"I", "n", "v", "a", "l", "i", "d", " ", "t", "o", "k", "e",
      "n">>), TRUE), Re(Lit(<<"t", "o", "k", "e", "n", " ", "e", "x", "p", "i", "r", "e", "d">>),
      TRUE)>>, title |-> <<"A", "u", "t", "h", "e", "n", "t", "i", "c", "a", "t", "i", "o", "n",
      " ", "/", " ", "A", "u", "t", "h", "o", "r", "i", "z", "a", "t", "i", "o", "n", " ", "E", "r",
      "r", "o", "r", " ", "(", "4", "0", "1", "/", "4", "0", "3", ")">>, rootCause |-> <<"T", "h",
      "e", " ", "r", "e", "q", "u", "e", "s", "t", " ", "l", "a", "c", "k", "s", " ", "v", "a", "l",
      "i", "d", " ", "c", "r", "e", "d", "e", "n", "t", "i", "a", "l", "s", " ", "o", "r", " ", "t",
      "h", "e", " ", "t", "o", "k", "e", "n", " ", "h", "a", "s", " ", "e", "x", "p", "i", "r", "e",
      "d", ".">>, severity |-> <<"h", "i", "g", "h">>]

\* line 19
Rule9 ==
    [patterns |-> <<Re(Lit(<<"4", "0", "4">>), FALSE), Re(Lit(<<"N", "o", "t", " ", "F", "o", "u",
      "n", "d">>), TRUE), Re(Lit(<<"R", "e", "s", "o", "u", "r", "c", "e", "N", "o", "t", "F", "o",
      "u", "n", "d", "E", "x", "c", "e", "p", "t", "i", "o", "n">>), TRUE), Re(Lit(<<"N", "o", "S",
      "u", "c", "h", "K", "e", "y">>), TRUE)>>, title |-> <<"R", "e", "s", "o", "u", "r", "c", "e",
      " ", "N", "o", "t", " ", "F", "o", "u", "n", "d", " ", "(", "4", "0", "4", ")">>, rootCause
      |-> <<"T", "h", "e", " ", "r", "e", "q", "u", "e", "s", "t", "e", "d", " ", "r", "e", "s",
      "o", "u", "r", "c", "e", ",", " ", "r", "e", "c", "o", "r", "d", ",", " ", "o", "r", " ", "e",
      "n", "d", "p", "o", "i", "n", "t", " ", "d", "o", "e", "s", " ", "n", "o", "t", " ", "e", "x",
      "i", "s", "t", ".">>, severity |-> <<"m", "e", "d", "i", "u", "m">>]

\* line 20
Rule10 ==
    [patterns |-> <<Re(Lit(<<"5", "0", "0">>), FALSE), Re(Lit(<<"I", "n", "t", "e", "r", "n", "a",
      "l", " ", "S", "e", "r", "v", "e", "r", " ", "E", "r", "r", "o", "r">>), TRUE), Re(Lit(<<"I",
      "n", "t", "e", "r", "n", "a", "l", "E", "r", "r", "o", "r">>), TRUE), Re(Lit(<<"S", "e", "r",
      "v", "i", "c", "e", "E", "x", "c", "e", "p", "t", "i", "o", "n">>), TRUE)>>, title |-> <<"I",
      "n", "t", "e", "r", "n", "a", "l", " ", "S", "e", "r", "v", "e", "r", " ", "E", "r", "r", "o",
      "r", " ", "(", "5", "0", "0", ")">>, rootCause |-> <<"A", "n", " ", "u", "n", "h", "a", "n",
      "d", "l", "e", "d", " ", "e", "x", "c", "e", "p", "t", "i", "o", "n", " ", "o", "c", "c", "u",
      "r", "r", "e", "d", " ", "o", "n", " ", "t", "h", "e", " ", "s", "e", "r", "v", "e", "r", " ",
      "s", "i", "d", "e", ".">>, severity |-> <<"c", "r", "i", "t", "i", "c", "a", "l">>]

\* line 21
Rule11 ==
    [patterns |-> <<Re(Lit(<<"T", "i", "m", "e", "o", "u", "t", "E", "x", "c", "e", "p", "t", "i",
      "o", "n">>), TRUE), Re(Lit(<<"R", "e", "a", "d", " ", "t", "i", "m", "e", "d", " ", "o", "u",
      "t">>), TRUE), Re(Lit(<<"R", "e", "q", "u", "e", "s", "t", " ", "t", "i", "m", "e", "o", "u",
      "t">>), TRUE), Re(Lit(<<"G", "a", "t", "e", "w", "a", "y", " ", "T", "i", "m", "e", "o", "u",
      "t">>), TRUE), Re(Lit(<<"5", "0", "4">>), FALSE)>>, title |-> <<"R", "e", "q", "u", "e", "s",
      "t", " ", "/", " ", "G", "a", "t", "e", "w", "a", "y", " ", "T", "i", "m", "e", "o", "u",
      "t">>, rootCause |-> <<"T", "h", "e", " ", "o", "p", "e", "r", "a", "t", "i", "o", "n", " ",
      "e", "x", "c", "e", "e", "d", "e", "d", " ", "i", "t", "s", " ", "t", "i", "m", "e", " ", "l",
      "i", "m", "i", "t", ".">>, severity |-> <<"h", "i", "g", "h">>]

\* line 22
Rule12 ==
    [patterns |-> <<Re(Lit(<<"J", "s", "o", "n", "P", "a", "r", "s", "e", "E", "x", "c", "e", "p",
      "t", "i", "o", "n">>), TRUE), Re(Lit(<<"J", "s", "o", "n", "M", "a", "p", "p", "i", "n", "g",
      "E", "x", "c", "e", "p", "t", "i", "o", "n">>), TRUE), Re(Lit(<<"S", "e", "r", "i", "a", "l",
      "i", "z", "a", "t", "i", "o", "n", "E", "x", "c", "e", "p", "t", "i", "o", "n">>), TRUE),
      Re(Lit(<<"U", "n", "r", "e", "c", "o", "g", "n", "i", "z", "e", "d", "P", "r", "o", "p", "e",
      "r", "t", "y", "E", "x", "c", "e", "p", "t", "i", "o", "n">>), TRUE), Re(Lit(<<"M", "i", "s",
      "m", "a", "t", "c", "h", "e", "d", "I", "n", "p", "u", "t", "E", "x", "c", "e", "p", "t", "i",
      "o", "n">>), TRUE), Re(Lit(<<"J", "S", "O", "N", "E", "x", "c", "e", "p", "t", "i", "o",
      "n">>), TRUE)>>, title |-> <<"J", "S", "O", "N", " ", "/", " ", "S", "e", "r", "i", "a", "l",
      "i", "z", "a", "t", "i", "o", "n", " ", "E", "r", "r", "o", "r">>, rootCause |-> <<"F", "a",
      "i", "l", "e", "d", " ", "t", "o", " ", "p", "a", "r", "s", "e", " ", "o", "r", " ", "s", "e",
      "r", "i", "a", "l", "i", "z", "e", " ", "J", "S", "O", "N", ".">>, severity |-> <<"m", "e",
      "d", "i", "u", "m">>]

\* line 23
Rule13 ==
    [patterns |-> <<Re(Lit(<<"P", "l", "a", "t", "f", "o", "r", "m", "T", "a", "b", "C", "o", "m",
      "p", "o", "n", "e", "n", "t", "s", "U", "t", "i", "l">>), TRUE), Re(Lit(<<"u", "p", "d", "a",
      "t", "e", "L", "a", "y", "o", "u", "t">>), TRUE), Re(Lit(<<"c", "o", "n", "s", "t", "r", "u",
      "c", "t", "J", "s", "o", "n", "A", "n", "d", "U", "p", "d", "a", "t", "e", "L", "a", "y", "o",
      "u", "t">>), TRUE), Re(Lit(<<"L", "a", "y", "o", "u", "t", "F", "o", "r", "m">>), TRUE),
      Re(Lit(<<"c", "r", "e", "a", "t", "e", "L", "a", "y", "o", "u", "t", "A", "c", "t", "i", "o",
      "n">>), TRUE)>>, title |-> <<"L", "a", "y", "o", "u", "t", " ", "/", " ", "C", "o", "m", "p",
      "o", "n", "e", "n", "t", " ", "U", "p", "d", "a", "t", "e", " ", "F", "a", "i", "l", "u", "r",
      "e">>, rootCause |-> <<"A", "n", " ", "e", "r", "r", "o", "r", " ", "o", "c", "c", "u", "r",
      "r", "e", "d", " ", "w", "h", "i", "l", "e", " ", "c", "o", "n", "s", "t", "r", "u", "c", "t",
      "i", "n", "g", " ", "o", "r", " ", "u", "p", "d", "a", "t", "i", "n", "g", " ", "a", " ", "C",
      "R", "M", " ", "l", "a", "y", "o", "u", "t", "/", "c", "o", "m", "p", "o", "n", "e", "n", "t",
      ".">>, severity |-> <<"h", "i", "g", "h">>]

\* line 24
Rule14 ==
    [patterns |-> <<Re(Lit(<<"m", "o", "d", "u", "l", "e", "c", "r", "e", "a", "t", "e", ".", "e",
      "x", "c", "e", "p", "t", "i", "o", "n">>), TRUE), Re(Lit(<<"M", "o", "d", "u", "l", "e", "C",
      "r", "e", "a", "t", "e", "E", "x", "c", "e", "p", "t", "i", "o", "n">>), TRUE), Re(Lit(<<"P",
      "u", "b", "l", "i", "s", "h", "E", "x", "c", "e", "p", "t", "i", "o", "n">>), TRUE),
      Re(Lit(<<"p", "u", "b", "l", "i", "s", "h">>) \o <<AnyRun>> \o Lit(<<"f", "a", "i", "l">>),
      TRUE)>>, title |-> <<"M", "o", "d", "u", "l", "e", " ", "C", "r", "e", "a", "t", "e", " ",
      "/", " ", "P", "u", "b", "l", "i", "s", "h", " ", "E", "x", "c", "e", "p", "t", "i", "o",
      "n">>, rootCause |-> <<"T", "h", "e", " ", "m", "o", "d", "u", "l", "e", " ", "c", "r", "e",
      "a", "t", "i", "o", "n", " ", "o", "r", " ", "p", "u", "b", "l", "i", "s", "h", " ", "p", "i",
      "p", "e", "l", "i", "n", "e", " ", "t", "h", "r", "e", "w", " ", "a", "n", " ", "e", "x", "c",
      "e", "p", "t", "i", "o", "n", ".">>, severity |-> <<"c", "r", "i", "t", "i", "c", "a", "l">>]

\* line 25
Rule15 ==
    [patterns |-> <<Re(Lit(<<"u", "p", "g", "r", "a", "d", "i", "n", "g", " ", "c", "u", "s", "t",
      "o", "m", "e", "r">>), TRUE), Re(Lit(<<"u", "p", "g", "r", "a", "d", "e">>) \o <<AnyRun>> \o
      Lit(<<"a", "c", "c", "o", "u", "n", "t">>), TRUE), Re(Lit(<<"U", "p", "g", "r", "a", "d", "e",
      "E", "x", "c", "e", "p", "t", "i", "o", "n">>), TRUE)>>, title |-> <<"U", "p", "g", "r", "a",
      "d", "e", " ", "F", "l", "o", "w", " ", "E", "x", "c", "e", "p", "t", "i", "o", "n">>,
      rootCause |-> <<"T", "h", "e", " ", "a", "c", "c", "o", "u", "n", "t", " ", "u", "p", "g",
      "r", "a", "d", "e", " ", "p", "r", "o", "c", "e", "s", "s", " ", "f", "a", "i", "l", "e", "d",
      ".">>, severity |-> <<"c", "r", "i", "t", "i", "c", "a", "l">>]

\* line 26
Rule16 ==
    [patterns |-> <<Re(Lit(<<"S", "i", "g", "n", "u", "p", "E", "x", "c", "e", "p", "t", "i", "o",
      "n">>), TRUE), Re(Lit(<<"s", "i", "g", "n", "u", "p">>) \o <<AnyRun>> \o Lit(<<"f", "a", "i",
      "l">>), TRUE), Re(Lit(<<"a", "c", "c", "o", "u", "n", "t">>) \o <<AnyRun>> \o Lit(<<"c", "r",
      "e", "a", "t">>) \o <<AnyRun>> \o Lit(<<"f", "a", "i", "l">>), TRUE), Re(Lit(<<"o", "r",
      "g">>) \o <<AnyRun>> \o Lit(<<"c", "r", "e", "a", "t">>) \o <<AnyRun>> \o Lit(<<"f", "a", "i",
      "l">>), TRUE)>>, title |-> <<"S", "i", "g", "n", "u", "p", " ", "F", "l", "o", "w", " ", "E",
      "x", "c", "e", "p", "t", "i", "o", "n">>, rootCause |-> <<"A", "c", "c", "o", "u", "n", "t",
      " ", "o", "r", " ", "o", "r", "g", "a", "n", "i", "s", "a", "t", "i", "o", "n", " ", "c", "r",
      "e", "a", "t", "i", "o", "n", " ", "f", "a", "i", "l", "e", "d", " ", "d", "u", "r", "i", "n",
      "g", " ", "t", "h", "e", " ", "s", "i", "g", "n", "u", "p", " ", "f", "l", "o", "w", ".">>,
      severity |-> <<"c", "r", "i", "t", "i", "c", "a", "l">>]

\* line 27
Rule17 ==
    [patterns |-> <<Re(Lit(<<"I", "n", "v", "i", "t", "e", "E", "x", "c", "e", "p", "t", "i", "o",
      "n">>), TRUE), Re(Lit(<<"i", "n", "v", "i", "t", "e">>) \o <<AnyRun>> \o Lit(<<"f", "a", "i",
      "l">>), TRUE), Re(Lit(<<"i", "n", "v", "i", "t", "a", "t", "i", "o", "n">>) \o <<AnyRun>> \o
      Lit(<<"e", "r", "r", "o", "r">>), TRUE)>>, title |-> <<"I", "n", "v", "i", "t", "e", " ", "F",
      "l", "o", "w", " ", "E", "x", "c", "e", "p", "t", "i", "o", "n">>, rootCause |-> <<"S", "e",
      "n", "d", "i", "n", "g", " ", "o", "r", " ", "p", "r", "o", "c", "e", "s", "s", "i", "n", "g",
      " ", "a", "n", " ", "i", "n", "v", "i", "t", "e", " ", "f", "a", "i", "l", "e", "d", ".">>,
      severity |-> <<"h", "i", "g", "h">>]

\* line 28
Rule18 ==
    [patterns |-> <<Re(Lit(<<"C", "l", "a", "s", "s", "C", "a", "s", "t", "E", "x", "c", "e", "p",
      "t", "i", "o", "n">>), TRUE)>>, title |-> <<"C", "l", "a", "s", "s", " ", "C", "a", "s", "t",
      " ", "E", "x", "c", "e", "p", "t", "i", "o", "n">>, rootCause |-> <<"C", "o", "d", "e", " ",
      "a", "t", "t", "e", "m", "p", "t", "e", "d", " ", "t", "o", " ", "c", "a", "s", "t", " ", "a",
      "n", " ", "o", "b", "j", "e", "c", "t", " ", "t", "o", " ", "a", "n", " ", "i", "n", "c", "o",
      "m", "p", "a", "t", "i", "b", "l", "e", " ", "t", "y", "p", "e", " ", "a", "t", " ", "r", "u",
      "n", "t", "i", "m", "e", ".">>, severity |-> <<"m", "e", "d", "i", "u", "m">>]

\* line 29
Rule19 ==
    [patterns |-> <<Re(Lit(<<"I", "l", "l", "e", "g", "a", "l", "A", "r", "g", "u", "m", "e", "n",
      "t", "E", "x", "c", "e", "p", "t", "i", "o", "n">>), TRUE), Re(Lit(<<"I", "l", "l", "e", "g",
      "a", "l", "S", "t", "a", "t", "e", "E", "x", "c", "e", "p", "t", "i", "o", "n">>), TRUE)>>,
      title |-> <<"I", "l", "l", "e", "g", "a", "l", " ", "A", "r", "g", "u", "m", "e", "n", "t",
      " ", "/", " ", "S", "t", "a", "t", "e">>, rootCause |-> <<"A", " ", "m", "e", "t", "h", "o",
      "d", " ", "r", "e", "c", "e", "i", "v", "e", "d", " ", "a", "n", " ", "a", "r", "g", "u", "m",
      "e", "n", "t", " ", "i", "t", " ", "c", "a", "n", "n", "o", "t", " ", "h", "a", "n", "d", "l",
      "e", ",", " ", "o", "r", " ", "t", "h", "e", " ", "o", "b", "j", "e", "c", "t", " ", "w", "a",
      "s", " ", "i", "n", " ", "a", "n", " ", "i", "n", "v", "a", "l", "i", "d", " ", "s", "t", "a",
      "t", "e", ".">>, severity |-> <<"m", "e", "d", "i", "u", "m">>]

\* line 30
Rule20 ==
    [patterns |-> <<Re(Lit(<<"I", "O", "E", "x", "c", "e", "p", "t", "i", "o", "n">>), TRUE),
      Re(Lit(<<"F", "i", "l", "e", "N", "o", "t", "F", "o", "u", "n", "d", "E", "x", "c", "e", "p",
      "t", "i", "o", "n">>), TRUE), Re(Lit(<<"E", "O", "F", "E", "x", "c", "e", "p", "t", "i", "o",
      "n">>), TRUE)>>, title |-> <<"I", "/", "O", " ", "E", "r", "r", "o", "r">>, rootCause |->
      <<"A", " ", "f", "i", "l", "e", ",", " ", "s", "t", "r", "e", "a", "m", ",", " ", "o", "r",
      " ", "I", "/", "O", " ", "o", "p", "e", "r", "a", "t", "i", "o", "n", " ", "f", "a", "i", "l",
      "e", "d", ".">>, severity |-> <<"h", "i", "g", "h">>]

\* const EXCEPTION_PATTERNS, lines 10-31 (without the fix texts, which no
\* function of the analyzer reads; a back quote of a rootCause text is
\* written as a single quote)
EXCEPTION_PATTERNS ==
    <<Rule1, Rule2, Rule3, Rule4, Rule5, Rule6, Rule7, Rule8, Rule9, Rule10, Rule11, Rule12, Rule13, Rule14, Rule15, Rule16, Rule17, Rule18, Rule19, Rule20>>

(***************************************************************************)
(* analyzeException                                                        *)
(***************************************************************************)
\* Array.prototype.join
RECURSIVE Join(_, _)
Join(parts, sep) ==
    IF parts = <<>> THEN <<>>
    ELSE IF Len(parts) = 1 THEN parts[1]
    ELSE parts[1] \o sep \o Join(Tail(parts), sep)

\* line 254
Corpus(rec) ==
    Join(<<JsString(Coalesce(rec.Exception_trace, EmptyStr)),
           JsString(Coalesce(rec.Error_message, EmptyStr)),
           JsString(Coalesce(rec.Reason_for_the_exception, EmptyStr))>>, <<"\n">>)

\* r.patterns.some(p => p.test(corpus))
SomePattern(r, corpus) == \E i \in DOMAIN r.patterns : Test(r.patterns[i], corpus)

\* variant: the first matching rule only (find, not filter)
analyzeException_First(rec) ==
    LET corpus == Corpus(rec)
        Hit(r) == SomePattern(r, corpus)
        hits   == SelectSeq(EXCEPTION_PATTERNS, Hit)
    IN  [corpus |-> corpus, matches |-> SubSeq(hits, 1, IF hits = <<>> THEN 0 ELSE 1)]

\* lines 253-256
analyzeException(rec) ==
    LET corpus == Corpus(rec)
        Hit(r) == SomePattern(r, corpus)
    IN  [corpus |-> corpus, matches |-> SelectSeq(EXCEPTION_PATTERNS, Hit)]

(***************************************************************************)
(* extractStackFrames, extractClasses                                      *)
(***************************************************************************)
\* String.prototype.split("\n")
RECURSIVE SplitLines(_)
SplitLines(s) ==
    IF \A i \in DOMAIN s : s[i] # "\n" THEN <<s>>
    ELSE LET k == CHOOSE i \in DOMAIN s : s[i] = "\n" /\ \A j \in 1..(i - 1) : s[j] # "\n"
         IN  <<SubSeq(s, 1, k - 1)>> \o SplitLines(SubSeq(s, k + 1, Len(s)))

StartsWith(s, prefix) == Len(s) >= Len(prefix) /\ SubSeq(s, 1, Len(prefix)) = prefix

\* /^\w.*\(.*\.java:\d+\)/
FrameRe ==
    Re(<<WordChar, AnyRun>> \o Lit(<<"(">>) \o <<AnyRun>> \o Lit(<<".","j","a","v","a",":">>) \o <<DigitRun>>
       \o Lit(<<")">>), FALSE)

\* l.startsWith("at ") || l.match(/^\w.*\(.*\.java:\d+\)/)
IsFrame(l) == StartsWith(l, <<"a","t"," ">>) \/ MatchFrom(FrameRe.pieces, l, 1)

\* the default of the parameter max, line 258
MaxFrames == 8

\* lines 258-261, for a trace that is a string or missing
extractStackFrames(trace) ==
    IF Falsy(trace) THEN <<>>
    ELSE LET lines == SplitLines(trace.s)
             trimmed == [i \in DOMAIN lines |-> Trim(lines[i])]
             kept  == SelectSeq(trimmed, IsFrame)
         IN  SubSeq(kept, 1, IF Len(kept) < MaxFrames THEN Len(kept) ELSE MaxFrames)

\* [\w$.]
IsPathChar(c) == IsWord(c) \/ c = "$" \/ c = "."

\* the last index of the run of path characters that begins at a (a - 1 if
\* there is none)
RunEnd(s, a) ==
    IF a > Len(s) \/ ~IsPathChar(s[a]) THEN a - 1
    ELSE CHOOSE e \in a..Len(s) :
            /\ \A m \in a..e : IsPathChar(s[m])
            /\ (e = Len(s) \/ ~IsPathChar(s[e + 1]))

\* the position of the dot that /at ([\w$.]+)\./ ends with when it matches
\* at p, or 0: the group is greedy, so it is the last dot of the run with
\* at least one character before it
MatchEnd(s, p) ==
    IF ~(p + 2 <= Len(s) /\ SubSeq(s, p, p + 2) = <<"a","t"," ">>) THEN 0
    ELSE LET a    == p + 3
             dots == {d \in (a + 1)..RunEnd(s, a) : s[d] = "."}
         IN  IF dots = {} THEN 0 ELSE CHOOSE d \in dots : \A x \in dots : x <= d

\* parts[parts.length - 1] of m[1].split(".")
LastPart(group) ==
    LET dots == {d \in DOMAIN group : group[d] = "."}
        last == IF dots = {} THEN 0 ELSE CHOOSE d \in dots : \A x \in dots : x <= d
    IN  SubSeq(group, last + 1, Len(group))

\* trace.matchAll(/at ([\w$.]+)\./g), from position p on: the last parts of
\* the groups, match by match
RECURSIVE ClassHits(_, _)
ClassHits(s, p) ==
    IF p > Len(s) THEN <<>>
    ELSE LET d == MatchEnd(s, p)
         IN  IF d = 0 THEN ClassHits(s, p + 1)
             ELSE <<LastPart(SubSeq(s, p + 3, d - 1))>> \o ClassHits(s, d + 1)

\* the cap of line 267
MaxClasses == 6

\* lines 263-268, for a trace that is a string or missing
extractClasses(trace) ==
    IF Falsy(trace) THEN <<>>
    ELSE LET hits == KeysInOrder(ClassHits(trace.s, 1))
         IN  SubSeq(hits, 1, IF Len(hits) < MaxClasses THEN Len(hits) ELSE MaxClasses)

(***************************************************************************)
(* buildExceptionContext                                                   *)
(***************************************************************************)
ToUpperChar(c) ==
    IF \E i \in DOMAIN Lower : Lower[i] = c
    THEN Upper[CHOOSE i \in DOMAIN Lower : Lower[i] = c]
    ELSE c

ToUpperCase(cs) == [i \in DOMAIN cs |-> ToUpperChar(cs[i])]

\* the en dash and the bullet of the source text, written in ASCII
EnDash == <<"-">>
Bullet == <<"*">>

NotAvailable == <<"N","/","A">>

\* the text toLocaleDateString / toLocaleTimeString of line 43 give, in a
\* browser whose time zone is UTC, for the dates the model's records carry
LocaleTable ==
    { <<19723, <<"J","a","n"," ","0","1"," ","0","0",":","0","0">>>>,
      <<19754, <<"F","e","b"," ","0","1"," ","0","0",":","0","0">>>>,
      <<19783, <<"M","a","r"," ","0","1"," ","0","0",":","0","0">>>> }

\* lines 40-45
formatTs(iso) ==
    IF Falsy(iso) THEN EnDash
    ELSE LET d == DateOf(iso)
         IN  IF ~d.nan /\ \E e \in LocaleTable : e[1] = d.ms
             THEN (CHOOSE e \in LocaleTable : e[1] = d.ms)[2]
             ELSE <<"I","n","v","a","l","i","d"," ","D","a","t","e"," ","I","n","v","a","l","i","d"," ","D","a","t","e">>

\* ${v ?? placeholder}
OrElse(v, placeholder) == IF IsNullish(v) THEN placeholder ELSE JsString(v)

\* the labels and fields of lines 277-286
IdentityLines ==
    <<<<<<"N","a","m","e",":"," ">>, "Name">>,
      <<<<"Z","O","I","D",":"," ">>, "ZOID">>,
      <<<<"Z","U","I","D",":"," ">>, "ZUID">>,
      <<<<"F","l","o","w"," ","T","y","p","e",":"," ">>, "Flow_Type">>,
      <<<<"H","T","T","P"," ","S","t","a","t","u","s",":"," ">>, "Statuscode">>,
      <<<<"S","e","r","v","e","r",":"," ">>, "ServerName">>,
      <<<<"T","h","r","e","a","d"," ","I","D",":"," ">>, "threadid">>,
      <<<<"R","e","q","u","e","s","t"," ","I","D",":"," ">>, "requestid">>,
      <<<<"B","u","i","l","d"," ","I","D",":"," ">>, "BuildID">>,
      <<<<"C","h","a","n","g","e","s","e","t",":"," ">>, "Changeset">>>>

HeadRecord  == <<"=","=","="," ","E","X","C","E","P","T","I","O","N"," ","R","E","C","O","R","D"," ","=","=","=">>
HeadMessage == <<"=","=","="," ","E","R","R","O","R"," ","M","E","S","S","A","G","E"," ","=","=","=">>
HeadReason  == <<"=","=","="," ","R","E","A","S","O","N"," ","F","O","R"," ","E","X","C","E","P","T","I","O","N"," ","=","=","=">>
HeadTrace   == <<"=","=","="," ","E","X","C","E","P","T","I","O","N"," ","T","R","A","C","E"," ","=","=","=">>
HeadMatches == <<"=","=","="," ","P","R","E","-","A","N","A","L","Y","Z","E","D"," ","P","A","T","T","E","R","N"," ","M","A","T","C","H","E","S"," ","=","=","=">>
HeadFrames  == <<"=","=","="," ","T","O","P"," ","S","T","A","C","K"," ","F","R","A","M","E","S"," ","=","=","=">>
HeadClasses == <<"=","=","="," ","C","L","A","S","S","E","S"," ","I","N","V","O","L","V","E","D"," ","=","=","=">>

\* `* ${m.title} [${m.severity.toUpperCase()}]: ${m.rootCause}`
MatchLine(m) ==
    Bullet \o <<" ">> \o m.title \o <<" ","[">> \o ToUpperCase(m.severity) \o <<"]",":"," ">>
    \o m.rootCause

\* variant: a missing free-text field is rendered as the empty string
buildExceptionContext_NoPlaceholder(rec) ==
    LET found == analyzeException(rec).matches
        stack == extractStackFrames(rec.Exception_trace)
        classes == extractClasses(rec.Exception_trace)
    IN  Join(<<HeadRecord>>
             \o [i \in DOMAIN IdentityLines |->
                    IdentityLines[i][1] \o OrElse(rec[IdentityLines[i][2]], EnDash)]
             \o <<<<"R","e","q","u","e","s","t"," ","T","i","m","e",":"," ">> \o formatTs(EffectiveTime(rec)),
                  <<"S","o","u","r","c","e"," ","M","o","d","u","l","e",":"," ">> \o <<rec.Source_Module>>,
                  <<>>,
                  HeadMessage, OrElse(rec.Error_message, <<>>), <<>>,
                  HeadReason, OrElse(rec.Reason_for_the_exception, <<>>), <<>>,
                  HeadTrace, OrElse(rec.Exception_trace, <<>>), <<>>,
                  HeadMatches,
                  IF found # <<>> THEN Join([i \in DOMAIN found |-> MatchLine(found[i])], <<"\n">>)
                  ELSE <<"N","o"," ","k","n","o","w","n"," ","p","a","t","t","e","r","n","s"," ","m","a","t","c","h","e","d",".">>,
                  <<>>,
                  HeadFrames,
                  IF stack # <<>> THEN Join(stack, <<"\n">>) ELSE <<"N","o"," ","p","a","r","s","e","a","b","l","e"," ","f","r","a","m","e","s",".">>,
                  <<>>,
                  HeadClasses,
                  IF Join(classes, <<",", " ">>) # <<>> THEN Join(classes, <<",", " ">>)
                  ELSE NotAvailable>>,
             <<"\n">>)

\* lines 271-307; the source module, a string of its own kind in the model,
\* is one element of the text
buildExceptionContext(rec) ==
    LET found == analyzeException(rec).matches
        stack == extractStackFrames(rec.Exception_trace)
        classes == extractClasses(rec.Exception_trace)
    IN  Join(<<HeadRecord>>
             \o [i \in DOMAIN IdentityLines |->
                    IdentityLines[i][1] \o OrElse(rec[IdentityLines[i][2]], EnDash)]
             \o <<<<"R","e","q","u","e","s","t"," ","T","i","m","e",":"," ">> \o formatTs(EffectiveTime(rec)),
                  <<"S","o","u","r","c","e"," ","M","o","d","u","l","e",":"," ">> \o <<rec.Source_Module>>,
                  <<>>,
                  HeadMessage, OrElse(rec.Error_message, NotAvailable), <<>>,
                  HeadReason, OrElse(rec.Reason_for_the_exception, NotAvailable), <<>>,
                  HeadTrace, OrElse(rec.Exception_trace, NotAvailable), <<>>,
                  HeadMatches,
                  IF found # <<>> THEN Join([i \in DOMAIN found |-> MatchLine(found[i])], <<"\n">>)
                  ELSE <<"N","o"," ","k","n","o","w","n"," ","p","a","t","t","e","r","n","s"," ","m","a","t","c","h","e","d",".">>,
                  <<>>,
                  HeadFrames,
                  IF stack # <<>> THEN Join(stack, <<"\n">>) ELSE <<"N","o"," ","p","a","r","s","e","a","b","l","e"," ","f","r","a","m","e","s",".">>,
                  <<>>,
                  HeadClasses,
                  IF Join(classes, <<",", " ">>) # <<>> THEN Join(classes, <<",", " ">>)
                  ELSE NotAvailable>>,
             <<"\n">>)

(***************************************************************************)
(* The exception analyzer applied to one record                            *)
(***************************************************************************)
\* lines of a trace at most
MaxLines == 9

AtFrame    == <<"a","t"," ","a",".","B",".","c">>
TabFrame   == <<"\t","a","t"," ","a",".","B",".","c">>
JavaFrame  == <<"x",".","Y","(","Y",".","j","a","v","a",":","1",")">>
NpeLine    == <<"N","u","l","l","P","o","i","n","t","e","r","E","x","c","e","p","t","i","o","n">>
CausedLine == <<"C","a","u","s","e","d"," ","b","y",":"," ","x">>

LineKinds == {AtFrame, TabFrame, JavaFrame, NpeLine, CausedLine}

\* the traces: every trace of up to two lines, and the traces of three to
\* MaxLines frames of one kind
TraceTexts ==
    {Join(ls, <<"\n">>) : ls \in UNION {[1..n -> LineKinds] : n \in 0..2}}
    \cup {Join([i \in 1..n |-> l], <<"\n">>) : n \in 3..MaxLines, l \in {AtFrame, TabFrame}}

\* a free-text field of a raw record: missing, null, empty or a text
FieldInputs(f, texts) ==
    {[k \in {} |-> Undef], [k \in {f} |-> Null], [k \in {f} |-> EmptyStr]}
    \cup {[k \in {f} |-> Str(x)] : x \in texts}

MessageTexts == {<<"p","u","b","l","i","s","h">>, <<"O","R","A","-","1"," ","n","p","e">>, <<"f","a","i","l"," ","4","0","0">>}

ReasonTexts == {<<"f","a","i","l">>, <<"N","P","E"," ","O","R","A","-">>}

\* f @@ g for records
Merge(f, g) == [k \in DOMAIN f \cup DOMAIN g |-> IF k \in DOMAIN f THEN f[k] ELSE g[k]]

\* the raw records: every trace with no message and no reason, and every
\* message and reason with no trace, a trace of one line that is no frame,
\* and a trace of one frame
DiagRaws ==
    {Merge([Name |-> NameAb, ZOID |-> Num(42)], a) :
        a \in FieldInputs("Exception_trace", TraceTexts \ {<<>>})}
    \cup {Merge([Name |-> NameAb, ZOID |-> Num(42)], Merge(a, Merge(b, c))) :
            a \in FieldInputs("Exception_trace", {NpeLine, TabFrame}),
            b \in FieldInputs("Error_message", MessageTexts),
            c \in FieldInputs("Reason_for_the_exception", ReasonTexts)}

InitDiag ==
    /\ FetchIdle
    /\ ParseIdle
    /\ HierIdle
    /\ ViewIdle
    /\ LoadIdle
    /\ raw \in DiagRaws
    /\ sourceModule = "publishfailure"
    /\ promoted = NoRecord
    /\ normalised = NoRecord
    /\ npc = "off"
    /\ contextRec = normaliseRaw(raw, sourceModule)
    /\ matches = <<>>
    /\ frames = <<>>
    /\ context = <<>>
    /\ dpc = "rec"

RestOfDiag == <<normVars, envVars, fetchVars, parseVars, hierVars, viewVars, loadVars, contextRec>>

\* line 860
Analyze ==
    /\ dpc = "rec"
    /\ matches' = analyzeException(contextRec).matches
    /\ dpc' = "analyzed"
    /\ UNCHANGED <<RestOfDiag, frames, context>>

\* line 861
ExtractFrames ==
    /\ dpc = "analyzed"
    /\ frames' = extractStackFrames(contextRec.Exception_trace)
    /\ dpc' = "framed"
    /\ UNCHANGED <<RestOfDiag, matches, context>>

\* line 747, for the first message of a chat and for a later one
BuildContext ==
    /\ dpc \in {"framed", "context"}
    /\ context' = buildExceptionContext(contextRec)
    /\ dpc' = IF dpc = "framed" THEN "context" ELSE "again"
    /\ UNCHANGED <<RestOfDiag, matches, frames>>

NextDiag == Analyze \/ ExtractFrames \/ BuildContext

SpecDiag == InitDiag /\ [][NextDiag]_vars

(***************************************************************************)
(* Properties of the exception analyzer (checked under SpecDiag)           *)
(***************************************************************************)
Analyzed == dpc # "rec"

\* the place of a rule in the table
RuleIndex(r) == CHOOSE k \in DOMAIN EXCEPTION_PATTERNS : EXCEPTION_PATTERNS[k] = r

\* the corpus by the text of the record: trace, message and reason of the raw
\* record, a missing, null or empty one counting as empty
RawText(f) == IF Present(Get(raw, f)) THEN JsString(Get(raw, f)) ELSE <<>>

RawCorpus ==
    RawText("Exception_trace") \o <<"\n">> \o RawText("Error_message") \o <<"\n">>
    \o RawText("Reason_for_the_exception")

\* C22: analyzeException returns exactly the rules of the table that have a
\* pattern matching the corpus, each once and in table order; with
\* "NullPointerException" in the corpus the first match is the rule "Null
\* Pointer Exception" of severity high, and with the three fields empty
\* there is no match.
C22_MatchesInTableOrder ==
    Analyzed =>
        /\ \A k \in DOMAIN EXCEPTION_PATTERNS :
              (\E i \in DOMAIN matches : matches[i] = EXCEPTION_PATTERNS[k])
              <=> \E j \in DOMAIN EXCEPTION_PATTERNS[k].patterns :
                      Test(EXCEPTION_PATTERNS[k].patterns[j], RawCorpus)
        /\ \A i, j \in DOMAIN matches : i < j => RuleIndex(matches[i]) < RuleIndex(matches[j])
        /\ Includes(RawCorpus, NpeLine) =>
              /\ matches # <<>>
              /\ matches[1].title = <<"N","u","l","l"," ","P","o","i","n","t","e","r"," ","E","x","c","e","p","t","i","o","n">>
              /\ matches[1].severity = <<"h","i","g","h">>
        /\ RawCorpus = <<"\n","\n">> => matches = <<>>

\* a record with NullPointerException in the trace, a lower-case npe and an
\* ORA- code in the message: three rules match, the first, the fourth and
\* one in between none
C22_Witness ==
    /\ Analyzed
    /\ Includes(RawCorpus, NpeLine)
    /\ Includes(RawCorpus, <<"n","p","e">>)
    /\ Len(matches) >= 2
    /\ matches[1] = Rule1
    /\ matches[2] = Rule4

Framed == dpc \in {"framed", "context", "again"}

TraceLines == IF Present(Get(raw, "Exception_trace")) THEN SplitLines(Get(raw, "Exception_trace").s) ELSE <<>>

\* C23: extractStackFrames returns at most 8 entries, in the order in which
\* they occur in the trace, and every entry is character for character a
\* line of the trace.
C23_FramesVerbatim ==
    Framed =>
        /\ Len(frames) <= MaxFrames
        /\ \E at \in [DOMAIN frames -> DOMAIN TraceLines] :
              /\ \A i \in DOMAIN frames : TraceLines[at[i]] = frames[i]
              /\ \A i, j \in DOMAIN frames : i < j => at[i] < at[j]

\* the lines of the context
ContextLines == SplitLines(context)

LineOf(heading) == CHOOSE i \in DOMAIN ContextLines : ContextLines[i] = heading

Headings == <<HeadRecord, HeadMessage, HeadReason, HeadTrace, HeadMatches, HeadFrames, HeadClasses>>

FreeText ==
    << <<HeadMessage, "Error_message">>, <<HeadReason, "Reason_for_the_exception">>,
       <<HeadTrace, "Exception_trace">> >>

C24_Sections ==
    dpc \in {"context", "again"} =>
        /\ \A h \in DOMAIN Headings :
              Cardinality({i \in DOMAIN ContextLines : ContextLines[i] = Headings[h]}) = 1
        /\ \A g, h \in DOMAIN Headings : g < h => LineOf(Headings[g]) < LineOf(Headings[h])
        /\ \A x \in DOMAIN FreeText :
              LET body == ContextLines[LineOf(FreeText[x][1]) + 1]
              IN  /\ body # <<>>
                  /\ ~Present(Get(raw, FreeText[x][2])) => body = NotAvailable

C24_SameText == [][dpc = "context" /\ dpc' = "again" => context' = context]_vars

\* C24: buildExceptionContext emits its sections in one fixed order, renders
\* each of the three free-text fields that is missing, null or empty in the
\* raw record as "N/A" and never as an empty section, and gives the same
\* text when it is called again on the same record.
C24_ContextFixed == []C24_Sections /\ C24_SameText

\* the context was built twice for a record with a message, an empty reason
\* and a null trace
C24_Witness ==
    /\ dpc = "again"
    /\ Present(Get(raw, "Error_message"))
    /\ Get(raw, "Reason_for_the_exception") = EmptyStr
    /\ Get(raw, "Exception_trace") = Null
    /\ ContextLines[LineOf(HeadReason) + 1] = NotAvailable
    /\ ContextLines[LineOf(HeadMessage) + 1] # NotAvailable

(***************************************************************************)
(* Further properties of the aggregator (checked under SpecFetch)          *)
(***************************************************************************)
\* fetchPage returns: the step that appends a page to all
PageReturned == fpc = "await" /\ fpc' = "loop"

\* what the step appends
PageOutput == SubSeq(all', Len(all) + 1, Len(all'))

\* the four record lists in declaration order, one after the other
Declared(lists) == Flatten([i \in DOMAIN Sources |-> lists[Sources[i]]])

PlaceIn(seq, r) == CHOOSE k \in DOMAIN seq : seq[k] = r

\* out holds the records of seq, latest first, and records of the same time
\* in the order they have in seq
OrderedFrom(out, seq) ==
    /\ Len(out) = Len(seq)
    /\ Range(out) = Range(seq)
    /\ \A i, j \in DOMAIN out :
          i < j =>
             \/ TimeOf(EffectiveTime(out[i])) > TimeOf(EffectiveTime(out[j]))
             \/ /\ TimeOf(EffectiveTime(out[i])) = TimeOf(EffectiveTime(out[j]))
                /\ PlaceIn(seq, out[i]) < PlaceIn(seq, out[j])

\* every source of the page was asked over the network and none went wrong
AllFromNetwork == fault = NoFault /\ Len(requests) = Len(Sources) * page

\* C25: the records of a page are in descending order of their effective
\* time, with records of the same time in source-declaration order and,
\* within a source, in response order, in whatever order the four fetches
\* completed.
C25_PageOrderFixed ==
    [][PageReturned =>
         /\ OrderedFrom(PageOutput, Declared([s \in SourceSet |-> result[s].records]))
         /\ AllFromNetwork =>
               OrderedFrom(PageOutput, Declared([s \in SourceSet |-> ExpectedRecords(s)]))]_vars

\* the first page has come back from the network with six records, among
\* them two of upgradefailure and one of publishfailure with the same time
C25_Witness ==
    /\ fpc = "loop" /\ page = 2
    /\ fault = NoFault
    /\ Len(requests) = Len(Sources)
    /\ Len(all) = 6
    /\ \E i \in DOMAIN all :
          /\ i + 2 \in DOMAIN all
          /\ all[i].Source_Module = "publishfailure"
          /\ all[i + 1].Source_Module = "upgradefailure"
          /\ all[i + 2].Source_Module = "upgradefailure"
          /\ EffectiveTime(all[i]) = EffectiveTime(all[i + 2])

\* C26: the array fetchAllRecords returns holds no upstream record twice.
C26_NoRecordTwice ==
    fpc = "done" => \A i, j \in DOMAIN all : i # j => all[i] # all[j]

(***************************************************************************)
(* Further properties of the aggregator over a left-behind cache           *)
(* (checked under SpecCache)                                               *)
(***************************************************************************)
\* the axios.get of source s for this page rejects
CallFails(s) == FaultAt(s, page) /\ fault.kind = "reject"

\* the call of source s for this page has gone to the network and failed
FailedCall(s) == fpc = "await" /\ call[s] = "done" /\ CallFails(s) /\ result[s] = FailResult

\* an entry is written only in the step in which the network call for its
\* (source, page) comes back with a response
C27_WrittenOnResponse ==
    [][\A k \in CacheKeys :
          (cache'[k] # cache[k] /\ cache'[k].kind = "entry") =>
              \E s \in SourceSet :
                  k = getCacheKey(s, page) /\ Awaiting(s) /\ call'[s] = "done" /\ ~CallFails(s)]_vars

\* the step in which a network call fails changes nothing in the cache
C27_FailureWritesNothing ==
    [][\A s \in SourceSet :
          (Awaiting(s) /\ call'[s] = "done" /\ CallFails(s)) =>
              cache' = cache /\ result'[s] = FailResult]_vars

\* the lookup a failing call begins with leaves the item under its key as it is
C27_LookupKeeps ==
    [][PageCalled =>
          \A s \in SourceSet :
              (CallFails(s) /\ ~FreshEntry(s)) => cache'[getCacheKey(s, page)] = Stored(s)]_vars

\* the same, but for an expired entry, which the lookup removes
C27_LookupKeepsUnlessExpired ==
    [][PageCalled =>
          \A s \in SourceSet :
              (CallFails(s) /\ ~FreshEntry(s)) =>
                  cache'[getCacheKey(s, page)] = IF ExpiredEntry(s) THEN NoEntry ELSE Stored(s)]_vars

\* after a failed call there is no entry under its key, and a call that
\* finds no entry asks the network
C27_NoEntryAfterFailure == \A s \in SourceSet : FailedCall(s) => Stored(s).kind # "entry"

C27_MissAsksNetwork ==
    [][PageCalled => \A s \in SourceSet : Stored(s).kind # "entry" => Requested(s)]_vars

\* C27: a cache entry for (source, page) is written only after a network
\* call for it returned a response; a fetchPageFromModule call whose network
\* call fails writes nothing and leaves every existing cache entry as it
\* was, so the next fetch of that (source, page) goes to the network again.
C27_FailureKeepsCache ==
    /\ C27_WrittenOnResponse
    /\ C27_FailureWritesNothing
    /\ C27_LookupKeeps
    /\ []C27_NoEntryAfterFailure
    /\ C27_MissAsksNetwork

\* C27 as the code has it: the call whose network call fails writes nothing,
\* and the only change it makes is that its lookup removes an expired entry
\* found under its own key.
C27_FailureKeepsCacheButExpired ==
    /\ C27_WrittenOnResponse
    /\ C27_FailureWritesNothing
    /\ C27_LookupKeepsUnlessExpired
    /\ []C27_NoEntryAfterFailure
    /\ C27_MissAsksNetwork

\* the second page load: the call for (signupfailure, 1), which failed on
\* the first load, is the only one to go to the network, and has failed
\* again; the entry stored under (publishfailure, 2) before the first load
\* is still there
C27_Witness ==
    /\ visit = 2
    /\ page = 1
    /\ FailedCall("signupfailure")
    /\ requests = <<Request("signupfailure", 1)>>
    /\ cache[getCacheKey("publishfailure", 2)] = Entry(StartTime - CACHE_EXPIRY_MS, CachedResult)
    /\ cache[getCacheKey("signupfailure", 1)] = NoEntry

(***************************************************************************)
(* The FailureLogs component: load cycles (loadData)                       *)
(***************************************************************************)
\* the loadData() of the mount effect and the loadData(true) of the
\* "Fetch from CRM" button
Cycles == {"initial", "refresh"}

\* Object.keys(localStorage).filter(k => k.startsWith(CACHE_KEY_PREFIX))
\*     .forEach(k => localStorage.removeItem(k))
clearAllCache(c) == [k \in DOMAIN c |-> NoEntry]

\* no module reports more records: fetchAllRecords is done after page 1
LoadUpstream == [s \in SourceSet |-> [kind |-> "ok", data |-> Dataset[s], more |-> FALSE]]

\* what an earlier visit stored for page 1 of signupfailure: a record the
\* module no longer holds
StaleResult == Result(<<normaliseRaw(RawMar, "signupfailure")>>, FALSE)

\* localStorage when the component mounts: empty, or one item under
\* (signupfailure, 1) that is still served
LoadCaches ==
    { EmptyCache,
      saveToCache(EmptyCache, StartTime - CACHE_EXPIRY_MS, "signupfailure", 1, StaleResult),
      [EmptyCache EXCEPT ![getCacheKey("signupfailure", 1)] = Shapeless(StartTime, FALSE)] }

\* a loadData call that has not been made.  overlapped is kept for the
\* properties only: whether another cycle was in flight when this one began
NotCalled ==
    [ pc |-> "none", call |-> [s \in SourceSet |-> "none"],
      result |-> [s \in SourceSet |-> NoResult], records |-> <<>>, overlapped |-> FALSE ]

\* the state after the first render: lines 940-951
InitLoad ==
    /\ NormIdle
    /\ ParseIdle
    /\ DiagIdle
    /\ upstream = LoadUpstream
    /\ fault = NoFault
    /\ now = StartTime
    /\ visit = 1
    /\ cache \in LoadCaches
    /\ fpc = "off"
    /\ page = 0
    /\ more = FALSE
    /\ all = <<>>
    /\ call = <<>>
    /\ result = <<>>
    /\ requests = <<>>
    /\ HierIdle
    /\ rawRecords = <<>>
    /\ filters = ResetState
    /\ loading = FALSE
    /\ cyc = [c \in Cycles |-> NotCalled]

RestOfLoad == <<normVars, parseVars, hierVars, diagVars, envVars, filters,
                fpc, page, more, all, call, result, requests>>

\* the fetchAllRecords of cycle c is waiting for page 1
InFlight(c) == cyc[c].pc = "await"

\* lines 964-966, 189-191, 177-182, 159-163: loadData runs to its first
\* await: the cache is cleared if asked for, the flag is set, and
\* fetchAllRecords calls fetchPage(1), whose four fetchPageFromModule calls
\* each look in the cache and issue their axios.get on a miss
loadData(c, clearCache) ==
    /\ cyc[c].pc = "none"
    /\ LET store == IF clearCache THEN clearAllCache(cache) ELSE cache
       IN  /\ cache' = CacheAfterLookups(store, 1, 1)
           /\ cyc' = [cyc EXCEPT ![c] =
                 [ pc         |-> "await",
                   call       |-> [s \in SourceSet |->
                                     IF getFromCache(store, now, s, 1).hit THEN "done" ELSE "pending"],
                   result     |-> [s \in SourceSet |-> getFromCache(store, now, s, 1).value],
                   records    |-> <<>>,
                   overlapped |-> \E d \in Cycles : InFlight(d) ]]
    /\ loading' = TRUE
    /\ UNCHANGED <<RestOfLoad, rawRecords>>

\* line 971: the mount effect
Mount == loadData("initial", FALSE)

\* line 1170: the button, which is there once the component has rendered
FetchFromCRM ==
    /\ cyc["initial"].pc # "none"
    /\ loadData("refresh", TRUE)

\* lines 163-173: the axios.get of source s of cycle c settles and the rest
\* of its fetchPageFromModule runs
RespondIn(c, s) ==
    /\ InFlight(c)
    /\ cyc[c].call[s] = "pending"
    /\ LET req    == Request(s, 1)
           parsed == parseCatalystResponse(ResponseBody(req))
           res    == Result([i \in DOMAIN parsed.data |-> normaliseRaw(parsed.data[i], s)],
                            parsed.hasMore)
       IN  IF (FaultAt(s, 1) /\ fault.kind = "reject") \/ Throws(parsed.data)
           THEN /\ cyc' = [cyc EXCEPT ![c].call[s] = "done", ![c].result[s] = FailResult]
                /\ cache' = CacheOnFailure(cache, now, s, 1)
           ELSE /\ cyc' = [cyc EXCEPT ![c].call[s] = "done", ![c].result[s] = res]
                /\ cache' = saveToCache(cache, now, s, 1, res)
    /\ UNCHANGED <<RestOfLoad, rawRecords, loading>>

\* lines 183-185, 192, 190, 194 and 967-968: the Promise.all of cycle c has
\* resolved; fetchPage returns, no module has more, fetchAllRecords returns
\* its array, and loadData hands it over and clears the flag.  If line 183
\* throws, the promise of loadData is rejected and lines 967-968 never run.
FinishCycle(c) ==
    /\ InFlight(c)
    /\ PageSettled(cyc[c].call)
    /\ IF \A s \in SourceSet : Spreadable(cyc[c].result[s])
       THEN /\ ~AnyMore(cyc[c].result)
            /\ LET records == <<>> \o SortByTimeDesc(Combined(cyc[c].result, 1))
               IN  /\ cyc' = [cyc EXCEPT ![c].pc = "done", ![c].records = records]
                   /\ rawRecords' = records
            /\ loading' = FALSE
       ELSE /\ cyc' = [cyc EXCEPT ![c].pc = "rejected"]
            /\ UNCHANGED <<rawRecords, loading>>
    /\ UNCHANGED <<RestOfLoad, cache>>

NextLoad ==
    \/ Mount
    \/ FetchFromCRM
    \/ \E c \in Cycles, s \in SourceSet : RespondIn(c, s)
    \/ \E c \in Cycles : FinishCycle(c)

SpecLoad == InitLoad /\ [][NextLoad]_vars

\* both cycles have handed over their records, and the second was started
\* while the first was in flight
OverlappedAndDone ==
    /\ \A c \in Cycles : cyc[c].pc = "done"
    /\ cyc["refresh"].overlapped

\* after two overlapping cycles the displayed records are those of the
\* cycle started last
LastStartedShown == OverlappedAndDone => rawRecords = cyc["refresh"].records

\* the flag is set as long as a cycle is in flight
FlagWhileInFlight == (\E c \in Cycles : InFlight(c)) => loading

\* C29: when the initial loadData and a "Fetch from CRM" loadData(true)
\* overlap, then after both have finished the displayed records are the
\* result of the cycle started last, and the loading flag is true as long
\* as any cycle is still in flight.
C29_LastCycleWins == LastStartedShown /\ FlagWhileInFlight

=============================================================================
